---- MODULE Spec2Model ----
(***************************************************************************)
(* Model of the pg-orm unit of work: entity instances (SQLModel), their    *)
(* columns and dirty flags, and the session collections known_objects,     *)
(* created_objects and deleted_objects with add / delete / flush and the   *)
(* statements the session hands to the driver.                             *)
(*                                                                         *)
(* Three further specifications cover the rest of the engine:              *)
(*   LifeSpec : configure, session construction per thread and target,     *)
(*              auto_commit, commit / rollback / close                     *)
(*   RegSpec  : the model registry                                         *)
(*   RelSpec  : relationship resolution against the identity map           *)
(***************************************************************************)
EXTENDS Integers, Sequences, FiniteSets, TLC

(* ---------------------------------------------------------------------- *)
(* Bounds                                                                  *)
(* ---------------------------------------------------------------------- *)
NObj == 2
MaxVal == 1
MaxOps == 5
\* LifeSpec: threads, session objects, calls
NThreads == 2
MaxSessions == 2
MaxHandles == 3
MaxCalls == 4
\* RegSpec: registrations
MaxRegs == 4
NTasks == 2
MaxParts == 3
MaxParses == 2
\* WireSpec: native values 0..MaxNative of each column type
MaxNative == 3
\* ColumnSpec: a column holds None or one of 1..MaxColumnVal
MaxColumnVal == 3
\* ConflictSpec: column values 1..MaxKey, at most MaxExec executed inserts
MaxKey == 2
MaxExec == 2

(* ---------------------------------------------------------------------- *)
(* Values                                                                  *)
(* ---------------------------------------------------------------------- *)
\* ColumnType.value starts as Python None; real values are 1..MaxVal.
None == 0
Vals == 0..MaxVal
RealVals == 1..MaxVal

\* The object that deleted_objects holds when delete() is handed a class.
ClassRef == 0

VARIABLES
    objs,               \* the entity instances, in order of construction
    known_objects,      \* session.known_objects (dict, insertion order)
    created_objects,    \* session.created_objects (list)
    deleted_objects,    \* session.deleted_objects (dict, insertion order)
    connection_closed,  \* session.connection_closed
    session_kind,       \* "sync": DatabaseSession, "async": AsyncDatabaseSession
    log,                \* statements the driver executed in the last operation
    err,                \* "ok" or the exception the last operation raised
    last_op,            \* the last operation called and its argument
    stmt,               \* what the last build_update returned
    assigned,           \* history: per object, the columns given a new value
    nops,               \* number of operations so far
    configured,         \* SessionMeta._configured
    default_credentials,\* Credentials.default_username / host / port / database_name
    sessions,           \* the session objects constructed so far
    local_sessions,     \* local_sessions.sessions of each thread
    handles,            \* what each successful DatabaseSession(...) returned
    call,               \* the last session-level or registry call
    models,             \* Registry._models
    initialized,        \* the classes whose `initialized` flag is set
    result              \* what the last relationship resolution returned

uow_vars == <<objs, known_objects, created_objects, deleted_objects,
              connection_closed, session_kind, log, err, last_op, stmt, assigned, nops>>

\* the unit-of-work variables a statement builder never touches
uow_state == <<objs, known_objects, created_objects, deleted_objects,
               connection_closed, session_kind, log, last_op, stmt, assigned>>

life_vars == <<configured, default_credentials, sessions, local_sessions, handles>>

reg_vars == <<models, initialized>>

vars == <<objs, known_objects, created_objects, deleted_objects,
          connection_closed, session_kind, log, err, last_op, stmt, assigned, nops,
          configured, default_credentials, sessions, local_sessions, handles,
          call, models, initialized, result>>

(* ---------------------------------------------------------------------- *)
(* Entity classes used to exercise the session                             *)
(*   A : id (primary key, auto increment), label                           *)
(*   T : id (primary key, default producer), label, upd (on_update)        *)
(*   B : k1, k2 (composite primary key), label                             *)
(*   N : label (no primary key)                                            *)
(*   P : id (primary key), relationship cs to C                            *)
(*   C : id (primary key), p_id (foreign key to P.id), relationship p to P *)
(*   L : id (primary key), relationship x to P, no foreign key either way  *)
(* ---------------------------------------------------------------------- *)
Classes == {"A", "T", "B", "N"}

Columns(cls) ==
    CASE cls = "A" -> <<"id", "label">>
      [] cls = "T" -> <<"id", "label", "upd">>
      [] cls = "B" -> <<"k1", "k2", "label">>
      [] cls = "N" -> <<"label">>
      [] cls = "P" -> <<"id">>
      [] cls = "C" -> <<"id", "p_id">>
      [] cls = "L" -> <<"id">>

ColSet(cls) == {Columns(cls)[i] : i \in DOMAIN Columns(cls)}

primary_key(cls, c) ==
    \/ cls \in {"A", "T", "P", "C", "L"} /\ c = "id"
    \/ cls = "B" /\ c \in {"k1", "k2"}

auto_increment(cls, c) == cls = "A" /\ c = "id"

has_default(cls, c) == cls = "T" /\ c = "id"

has_on_update(cls, c) == cls = "T" /\ c = "upd"

\* inst_primary_columns: the primary-key columns, in column order
inst_primary_columns(cls) ==
    SelectSeq(Columns(cls), LAMBDA c : primary_key(cls, c))

(* ---------------------------------------------------------------------- *)
(* Python containers: a dict is the sequence of its (key, value) entries   *)
(* in insertion order, a list is a sequence                                *)
(* ---------------------------------------------------------------------- *)
DictHas(d, k) == \E i \in DOMAIN d : d[i].key = k

DictIndex(d, k) == CHOOSE i \in DOMAIN d : d[i].key = k

DictGet(d, k) == d[DictIndex(d, k)].obj

\* d[k] = v : an existing key keeps its position, a new key goes last
DictSet(d, k, v) ==
    IF DictHas(d, k)
    THEN [d EXCEPT ![DictIndex(d, k)] = [key |-> k, obj |-> v]]
    ELSE Append(d, [key |-> k, obj |-> v])

\* del d[k]
DictDel(d, k) == SelectSeq(d, LAMBDA e : e.key # k)

ListHas(l, x) == \E i \in DOMAIN l : l[i] = x

\* list.remove(x): drops the first occurrence, ValueError (swallowed) if none
ListRemove(l, x) ==
    IF ~ListHas(l, x) THEN l
    ELSE LET i == CHOOSE j \in DOMAIN l : l[j] = x /\ \A m \in 1..(j - 1) : l[m] # x
         IN  SubSeq(l, 1, i - 1) \o SubSeq(l, i + 1, Len(l))

(* ---------------------------------------------------------------------- *)
(* str() of a column value, as a sequence of characters                    *)
(* ---------------------------------------------------------------------- *)
Digit(n) == CASE n = 0 -> "0" [] n = 1 -> "1" [] n = 2 -> "2" [] n = 3 -> "3"
              [] n = 4 -> "4" [] n = 5 -> "5" [] n = 6 -> "6" [] n = 7 -> "7"
              [] n = 8 -> "8" [] n = 9 -> "9"

RECURSIVE Decimal(_)
Decimal(n) == IF n < 10 THEN <<Digit(n)>> ELSE Decimal(n \div 10) \o <<Digit(n % 10)>>

Str(v) == IF v = None THEN <<"N", "o", "n", "e">> ELSE Decimal(v)

\* SQLModel.primary_str read on the class itself is the property object
PropertyKey == <<"<property object>">>

(* ---------------------------------------------------------------------- *)
(* Column                                                                  *)
(* ---------------------------------------------------------------------- *)
\* Column.get_value: returns the object after the call; a default producer
\* fills an unset value when apply_default is set (d is what it produces)
get_value(ob, c, apply_default, d) ==
    IF ob.val[c] = None /\ apply_default /\ has_default(ob.cls, c)
    THEN [ob EXCEPT !.val[c] = d]
    ELSE ob

\* Column.set_value
set_value(ob, c, v) ==
    IF v = ob.val[c] THEN ob
    ELSE [ob EXCEPT !.val[c] = v, !.changed[c] = TRUE]

\* Column.parse_to_db(apply_default): materialises the default, value as is
parse_to_db(ob, c, apply_default, d) == get_value(ob, c, apply_default, d)

(* ---------------------------------------------------------------------- *)
(* SQLModel                                                                *)
(* ---------------------------------------------------------------------- *)
\* SQLModel.__init__ before the keyword arguments are assigned
NewObject(cls) ==
    [cls |-> cls,
     val |-> [c \in ColSet(cls) |-> None],
     changed |-> [c \in ColSet(cls) |-> FALSE],
     exists_in_db |-> FALSE,
     apply_defaults |-> TRUE]

RECURSIVE SetAll(_, _, _, _)
SetAll(ob, cols, kw, i) ==
    IF i > Len(cols) THEN ob
    ELSE SetAll(set_value(ob, cols[i], kw[cols[i]]), cols, kw, i + 1)

\* SQLModel(**kwargs): every keyword goes through __setattr__ -> set_value
Construct(cls, kw) == SetAll(NewObject(cls), Columns(cls), kw, 1)

\* SQLModel.build_from_db / _build_from_db: values parsed straight into the
\* column types, no dirty flag touched
build_from_db(cls, row) ==
    [NewObject(cls) EXCEPT !.val = row, !.exists_in_db = TRUE, !.apply_defaults = FALSE]

RECURSIVE JoinStr(_, _, _)
JoinStr(ob, pcs, i) ==
    IF i > Len(pcs) THEN <<>>
    ELSE Str(ob.val[pcs[i]]) \o JoinStr(ob, pcs, i + 1)

\* SQLModel.primary_str
primary_str(ob) == JoinStr(ob, inst_primary_columns(ob.cls), 1)

RECURSIVE DefaultsFrom(_, _, _, _)
DefaultsFrom(ob, cols, i, d) ==
    IF i > Len(cols) THEN ob
    ELSE DefaultsFrom(get_value(ob, cols[i], TRUE, d), cols, i + 1, d)

\* SQLModel.set_defaults
set_defaults(ob, d) == DefaultsFrom(ob, Columns(ob.cls), 1, d)

\* SQLModel.object_persisted: clears `changed` on the columns returned by
\* the classmethod columns(), which are fresh clones of the class-level
\* columns; the instance's own columns (_columns) are not touched
object_persisted(ob) ==
    LET clones == [c \in ColSet(ob.cls) |-> FALSE]   \* flags of the clones
    IN  ob

(* ---------------------------------------------------------------------- *)
(* Statements                                                              *)
(* ---------------------------------------------------------------------- *)
Statement(kind, o, phase, set, where) ==
    [kind |-> kind, obj |-> o, phase |-> phase, set |-> set, where |-> where]

\* a builder that returned None
NoStatement == Statement("None", 0, "none", <<>>, <<>>)

\* SQLModel._get_update_primary_keys: one entry per primary-key column,
\* whatever its value
get_update_primary_keys(ob) ==
    LET pcs == inst_primary_columns(ob.cls)
    IN  [i \in DOMAIN pcs |-> <<pcs[i], ob.val[pcs[i]]>>]

\* _get_column_updates that forgets the on_update columns
get_column_updates_no_on_update(ob) ==
    <<SelectSeq(Columns(ob.cls), LAMBDA c : ob.changed[c]), <<>>>>

\* SQLModel._get_column_updates: (updates, update_columns)
get_column_updates(ob) ==
    <<SelectSeq(Columns(ob.cls), LAMBDA c : ob.changed[c]),
      SelectSeq(Columns(ob.cls), LAMBDA c : ~ob.changed[c] /\ has_on_update(ob.cls, c))>>

\* SQLModel.build_update / build_async_update
build_update(ob, o, phase) ==
    LET primary_columns == inst_primary_columns(ob.cls)
        primary_values == get_update_primary_keys(ob)
        cu == get_column_updates(ob)
    IN  IF Len(primary_values) # Len(primary_columns) THEN NoStatement
        ELSE IF Len(cu[1]) = 0 THEN NoStatement
        ELSE Statement("UPDATE", o, phase, cu[1] \o cu[2], primary_values)

\* SQLModel._set_update_columns: each column gets what its producer returns
\* now (u)
set_update_columns(update_columns, u) ==
    [i \in DOMAIN update_columns |-> [key |-> update_columns[i], obj |-> u]]

\* the mapping build_update hands to set_(): the held value of every changed
\* column, updated with _set_update_columns of the unchanged on_update columns
update_values(ob, u) ==
    [i \in DOMAIN get_column_updates(ob)[1] |->
        [key |-> get_column_updates(ob)[1][i],
         obj |-> ob.val[get_column_updates(ob)[1][i]]]]
    \o set_update_columns(get_column_updates(ob)[2], u)

\* the Relationship attributes of an entity type, declared after its columns
relationships(cls) ==
    CASE cls = "P" -> <<"cs">>
      [] cls = "C" -> <<"p">>
      [] cls = "L" -> <<"x">>
      [] OTHER -> <<>>

\* isinstance(column, Relationship)
is_relationship(cls, c) == \E i \in DOMAIN relationships(cls) : relationships(cls)[i] = c

\* SQLModel._columns / instance_columns: every Column attribute of the
\* instance in declaration order, the Relationship attributes among them
instance_columns(cls) == Columns(cls) \o relationships(cls)

\* build_insert, column_names: the loop over _columns.values() skips a
\* Relationship and an auto-increment column
insert_column_names(cls) ==
    SelectSeq(instance_columns(cls),
              LAMBDA c : ~(is_relationship(cls, c) \/ auto_increment(cls, c)))

\* column_values without the default producers
insert_column_values_raw(ob, d) ==
    [i \in DOMAIN insert_column_names(ob.cls) |-> ob.val[insert_column_names(ob.cls)[i]]]

\* build_insert, column_values: column.parse_to_db() of the same columns in
\* the same order; the column types here are Integer and String, whose
\* parse_to_db hands the value over as it is
insert_column_values(ob, d) ==
    [i \in DOMAIN insert_column_names(ob.cls) |->
        parse_to_db(ob, insert_column_names(ob.cls)[i], TRUE, d).val[
            insert_column_names(ob.cls)[i]]]

RECURSIVE InsertDefaults(_, _, _, _)
InsertDefaults(ob, cols, i, d) ==
    IF i > Len(cols) THEN ob
    ELSE InsertDefaults(
            IF auto_increment(ob.cls, cols[i]) THEN ob
            ELSE parse_to_db(ob, cols[i], TRUE, d),
            cols, i + 1, d)

\* SQLModel.build_insert / build_async_insert: <<object afterwards, statement>>
build_insert(ob, o, phase, d) ==
    <<InsertDefaults(ob, Columns(ob.cls), 1, d),
      Statement("INSERT", o, phase, insert_column_names(ob.cls), <<>>)>>

(* ---------------------------------------------------------------------- *)
(* Session: the part of the state one handler works on                     *)
(* ---------------------------------------------------------------------- *)
\* connection / cursor: "None" (never opened), "open" or "closed";
\* auto_commit is the session's flag, autocommit the connection's setting;
\* connects counts the connections opened during the handler
SessionState ==
    [objs |-> objs, known |-> known_objects, created |-> created_objects,
     deleted |-> deleted_objects, log |-> <<>>, err |-> "ok",
     connection |-> IF connection_closed THEN "closed" ELSE "open",
     cursor |-> IF connection_closed THEN "closed" ELSE "open",
     auto_commit |-> TRUE, autocommit |-> TRUE, connects |-> 0]

\* DatabaseSession._connection: a missing or closed connection is opened
\* with the session's auto_commit and the three collections start over
connect(st, closed) ==
    IF closed
    THEN [st EXCEPT !.known = <<>>, !.created = <<>>, !.deleted = <<>>,
                    !.connection = "open", !.autocommit = st.auto_commit,
                    !.connects = @ + 1]
    ELSE st

connection(st) == connect(st, st.connection # "open")

\* DatabaseSession._cursor: a missing or closed cursor is opened on _connection
cursor(st) ==
    IF st.cursor = "open" THEN st
    ELSE [connection(st) EXCEPT !.cursor = "open"]

\* DatabaseSession.execute: set_search_path() does nothing without an
\* ensure_path, then the statement reaches the driver's cursor
execute(st, statement) == [cursor(st) EXCEPT !.log = Append(@, statement)]

\* DatabaseSession._replace
replace(st, o) ==
    LET k == primary_str(st.objs[o])
    IN  IF k = <<>> THEN st
        ELSE [st EXCEPT !.known = DictSet(@, k, o)]

\* DatabaseSession._update; the cooperative session also calls object_persisted
update(st, o, phase, kind) ==
    LET statement == build_update(st.objs[o], o, phase)
    IN  IF statement = NoStatement THEN st
        ELSE LET st1 == execute(st, statement)
             IN  IF kind = "async"
                 THEN [st1 EXCEPT !.objs[o] = object_persisted(@)]
                 ELSE st1

\* DatabaseSession._insert; the cooperative session also calls object_persisted
insert(st, o, phase, kind, d) ==
    LET bi  == build_insert(st.objs[o], o, phase, d)
        st1 == execute([st EXCEPT !.objs[o] = bi[1]], bi[2])
        st2 == [st1 EXCEPT !.objs[o].exists_in_db = TRUE]
        st3 == IF kind = "async"
               THEN [st2 EXCEPT !.objs[o] = object_persisted(@)]
               ELSE st2
    IN  replace(st3, o)

\* _flush_obj() that inserts whatever it is handed
flush_obj_always_insert(st, o, phase, kind, d) == insert(st, o, phase, kind, d)

\* DatabaseSession._flush_obj
flush_obj(st, o, phase, kind, d) ==
    IF st.objs[o].exists_in_db THEN update(st, o, phase, kind)
    ELSE insert(st, o, phase, kind, d)

\* delete() that schedules the deferred delete only for an untracked object
delete_untracked_only(st, k, o) ==
    LET tracked  == DictHas(st.known, k) \/ ListHas(st.created, o)
        known1   == IF DictHas(st.known, k) THEN DictDel(st.known, k) ELSE st.known
        created1 == ListRemove(st.created, o)
        st1      == [st EXCEPT !.known = known1, !.created = created1]
    IN  IF tracked \/ DictHas(st.deleted, k)
        THEN [st |-> st1, ret |-> "self"]
        ELSE [st |-> [st1 EXCEPT !.deleted = DictSet(@, k, o)], ret |-> "None"]

\* DatabaseSession.delete applied to st; ret is what the call returns
delete(st, k, o) ==
    LET known1   == IF DictHas(st.known, k) THEN DictDel(st.known, k) ELSE st.known
        created1 == ListRemove(st.created, o)
        st1      == [st EXCEPT !.known = known1, !.created = created1]
    IN  IF DictHas(st.deleted, k)
        THEN [st |-> st1, ret |-> "self"]
        ELSE [st |-> [st1 EXCEPT !.deleted = DictSet(@, k, o)], ret |-> "None"]

\* SQLModel.build_delete: session.delete(self.__class__) is the session's
\* delete(obj) handed the class, so it files the class under the property
\* object and returns None or the session; neither has a where()
build_delete(st, o) ==
    LET dl == delete(st, PropertyKey, ClassRef)
    IN  IF Len(inst_primary_columns(st.objs[o].cls)) > 0
        THEN [dl.st EXCEPT !.err = "AttributeError"]
        ELSE dl.st

\* DatabaseSession.execute_delete (builds, never executes);
\* AsyncDatabaseSession.execute_delete raises NotImplementedError
execute_delete(st, o, kind) ==
    IF kind = "async" THEN [st EXCEPT !.err = "NotImplementedError"]
    ELSE IF o = ClassRef THEN [st EXCEPT !.err = "TypeError"]
    ELSE build_delete(st, o)

\* the rest of a loop of flush() over a container the session no longer
\* refers to: a reconnect inside the loop bound fresh collections, the
\* iterator still walks the old one
RECURSIVE FlushDetached(_, _, _, _, _, _)
FlushDetached(st, view, i, phase, kind, d) ==
    IF st.err # "ok" THEN st
    ELSE IF i > Len(view) THEN st
    ELSE FlushDetached(flush_obj(st, view[i], phase, kind, d), view, i + 1, phase, kind, d)

\* for obj in self.known_objects.values(): self._flush_obj(obj)
\* (a dict that changed size under the iterator raises RuntimeError)
RECURSIVE FlushKnown(_, _, _, _, _)
FlushKnown(st, i, n0, kind, d) ==
    IF st.err # "ok" THEN st
    ELSE IF Len(st.known) # n0 THEN [st EXCEPT !.err = "RuntimeError"]
    ELSE IF i > Len(st.known) THEN st
    ELSE LET st1 == flush_obj(st, st.known[i].obj, "known", kind, d)
         IN  IF st1.connects # st.connects
             THEN FlushDetached(st1, [j \in DOMAIN st.known |-> st.known[j].obj],
                                i + 1, "known", kind, d)
             ELSE FlushKnown(st1, i + 1, n0, kind, d)

\* for obj in self.deleted_objects.values(): self.execute_delete(obj)
RECURSIVE FlushDeleted(_, _, _, _)
FlushDeleted(st, i, n0, kind) ==
    IF st.err # "ok" THEN st
    ELSE IF Len(st.deleted) # n0 THEN [st EXCEPT !.err = "RuntimeError"]
    ELSE IF i > Len(st.deleted) THEN st
    ELSE FlushDeleted(execute_delete(st, st.deleted[i].obj, kind), i + 1, n0, kind)

\* for obj in self.created_objects: self._flush_obj(obj)
RECURSIVE FlushCreated(_, _, _, _)
FlushCreated(st, i, kind, d) ==
    IF st.err # "ok" THEN st
    ELSE IF i > Len(st.created) THEN st
    ELSE LET st1 == flush_obj(st, st.created[i], "created", kind, d)
         IN  IF st1.connects # st.connects
             THEN FlushDetached(st1, st.created, i + 1, "created", kind, d)
             ELSE FlushCreated(st1, i + 1, kind, d)

\* flush() that writes the identity-less creations before the known objects
flush_created_first(st, kind, d) ==
    LET st1 == FlushCreated(st, 1, kind, d)
        st2 == FlushDeleted(st1, 1, Len(st1.deleted), kind)
    IN  FlushKnown(st2, 1, Len(st2.known), kind, d)

\* DatabaseSession.flush / AsyncDatabaseSession.flush
flush(st, kind, d) ==
    LET st1 == FlushKnown(st, 1, Len(st.known), kind, d)
        st2 == FlushDeleted(st1, 1, Len(st1.deleted), kind)
    IN  FlushCreated(st2, 1, kind, d)

\* add() that keeps the instance already stored under the identity
add_keep_first(st, o, d) ==
    LET st0 == cursor(st)
        st1 == IF ~st0.objs[o].exists_in_db
               THEN [st0 EXCEPT !.objs[o] = set_defaults(@, d)]
               ELSE st0
        k   == primary_str(st1.objs[o])
    IN  IF k # <<>>
        THEN IF DictHas(st1.known, k) THEN st1
             ELSE [st1 EXCEPT !.known = DictSet(@, k, o)]
        ELSE [st1 EXCEPT !.created = Append(@, o)]

\* DatabaseSession.add / AsyncDatabaseSession.add
add(st, o, d) ==
    LET st0 == cursor(st)
        st1 == IF ~st0.objs[o].exists_in_db
               THEN [st0 EXCEPT !.objs[o] = set_defaults(@, d)]
               ELSE st0
        k   == primary_str(st1.objs[o])
    IN  IF k # <<>>
        THEN [st1 EXCEPT !.known = DictSet(@, k, o)]
        ELSE [st1 EXCEPT !.created = Append(@, o)]

\* Query._build_result for a single entity type: hydrate, then track
build_result(st, cls, row, d) ==
    LET o   == Len(st.objs) + 1
        st1 == [st EXCEPT !.objs = Append(@, build_from_db(cls, row))]
    IN  IF primary_str(st1.objs[o]) # <<>>
        THEN add(st1, o, d)
        ELSE st1

(* ---------------------------------------------------------------------- *)
(* Credentials and the parts of the state a specification leaves alone     *)
(* ---------------------------------------------------------------------- *)
\* None for a string attribute or a keyword that was not passed (falsy)
NoValue == ""

DefaultHost == "localhost"

DefaultPort == 5432

\* Credentials.default_* before configure()
UnsetCredentials ==
    [username |-> NoValue, host |-> DefaultHost, port |-> DefaultPort,
     database_name |-> NoValue]

\* no session-level or registry call yet
NoCall == [name |-> "none"]

\* state before configure() and before any session is constructed
LifeIdle ==
    /\ configured = FALSE
    /\ default_credentials = UnsetCredentials
    /\ sessions = <<>>
    /\ local_sessions = [t \in 1..NThreads |-> <<>>]
    /\ handles = <<>>

\* a Registry right after Registry()
RegIdle ==
    /\ models = <<>>
    /\ initialized = {}

(* ---------------------------------------------------------------------- *)
(* Initial state and the operations                                        *)
(* ---------------------------------------------------------------------- *)
\* A session right after construction: empty collections, and the
\* search-path statement of __new__ has opened the connection.  The session
\* is the blocking DatabaseSession or the cooperative AsyncDatabaseSession.
Init ==
    /\ objs = <<>>
    /\ known_objects = <<>>
    /\ created_objects = <<>>
    /\ deleted_objects = <<>>
    /\ connection_closed = FALSE
    /\ session_kind \in {"sync", "async"}
    /\ log = <<>>
    /\ err = "ok"
    /\ last_op = [name |-> "init", obj |-> 0, tracked |-> FALSE]
    /\ stmt = NoStatement
    /\ assigned = <<>>
    /\ nops = 0
    /\ LifeIdle
    /\ RegIdle
    /\ call = NoCall
    /\ result = 0

\* what every operation leaves behind
Commit(st, name, o, statement) ==
    /\ objs' = st.objs
    /\ known_objects' = st.known
    /\ created_objects' = st.created
    /\ deleted_objects' = st.deleted
    /\ log' = st.log
    /\ err' = st.err
    /\ last_op' = [name |-> name, obj |-> o,
                   tracked |-> /\ o \in DOMAIN objs
                               /\ \/ \E i \in DOMAIN known_objects : known_objects[i].obj = o
                                  \/ ListHas(created_objects, o)]
    /\ stmt' = statement
    /\ nops' = nops + 1
    /\ connection_closed' = (st.connection # "open")
    /\ UNCHANGED <<session_kind, life_vars, reg_vars, call, result>>

\* obj = Cls(**kw)
New ==
    /\ nops < MaxOps
    /\ Len(objs) < NObj
    /\ \E cls \in Classes : \E kw \in [ColSet(cls) -> Vals] :
          /\ Commit([SessionState EXCEPT !.objs = Append(@, Construct(cls, kw))],
                    "new", Len(objs) + 1, NoStatement)
          /\ assigned' = Append(assigned, {c \in ColSet(cls) : kw[c] # None})

\* obj.<c> = v
SetAttr ==
    /\ nops < MaxOps
    /\ \E o \in DOMAIN objs : \E c \in ColSet(objs[o].cls) : \E v \in Vals :
          /\ Commit([SessionState EXCEPT !.objs[o] = set_value(@, c, v)],
                    "setattr", o, NoStatement)
          /\ assigned' = IF v # objs[o].val[c]
                         THEN [assigned EXCEPT ![o] = @ \cup {c}]
                         ELSE assigned

\* session.add(obj)
Add ==
    /\ nops < MaxOps
    /\ \E o \in DOMAIN objs : \E d \in RealVals :
          Commit(add(SessionState, o, d), "add", o, NoStatement)
    /\ UNCHANGED assigned

\* session.delete(obj)
Delete ==
    /\ nops < MaxOps
    /\ \E o \in DOMAIN objs :
          Commit(delete(SessionState, primary_str(objs[o]), o).st, "delete", o, NoStatement)
    /\ UNCHANGED assigned

\* session.flush()
Flush ==
    /\ nops < MaxOps
    /\ \E d \in RealVals :
          Commit(flush(SessionState, session_kind, d), "flush", 0, NoStatement)
    /\ UNCHANGED assigned

\* obj.build_update(session=session) / obj.build_async_update(session=session)
BuildUpdate ==
    /\ nops < MaxOps
    /\ \E o \in DOMAIN objs :
          Commit(SessionState, "build_update", o, build_update(objs[o], o, "none"))
    /\ UNCHANGED assigned

\* session.select(Cls).where(...).first() when the driver returns a row:
\* the SELECT is executed and the row is hydrated by _build_result
Select ==
    /\ nops < MaxOps
    /\ Len(objs) < NObj
    /\ \E cls \in Classes : \E row \in [ColSet(cls) -> Vals] : \E d \in RealVals :
          /\ \A c \in ColSet(cls) : primary_key(cls, c) => row[c] # None
          /\ Commit(build_result(
                      execute(SessionState, Statement("SELECT", 0, "none", <<>>, <<>>)),
                      cls, row, d),
                    "select", Len(objs) + 1, NoStatement)
          /\ assigned' = Append(assigned, {})

Next == New \/ SetAttr \/ Add \/ Delete \/ Flush \/ BuildUpdate \/ Select

Spec == Init /\ [][Next]_vars

(* ---------------------------------------------------------------------- *)
(* Session lifecycle: configure, construction, auto_commit, commit,        *)
(* rollback, close                                                         *)
(* ---------------------------------------------------------------------- *)
Threads == 1..NThreads

Users == {"u1", "u2"}

Databases == {"db1", "db2"}

\* credentials=None
NoCredentials == [credentials |-> "None"]

\* Credentials() without keywords
NoKeywords == [username |-> NoValue, host |-> NoValue, port |-> 0, database_name |-> NoValue]

\* the keywords a caller passes to Credentials(...): host and port left out
CredentialArgs ==
    [username : Users, host : {NoValue}, port : {0}, database_name : Databases]

\* Credentials.__init__: a keyword that is missing or falsy takes the default
Credentials(dflt, kw) ==
    [username |-> IF kw.username # NoValue THEN kw.username ELSE dflt.username,
     host |-> IF kw.host # NoValue THEN kw.host ELSE dflt.host,
     port |-> IF kw.port # 0 THEN kw.port ELSE dflt.port,
     database_name |-> IF kw.database_name # NoValue THEN kw.database_name
                       ELSE dflt.database_name]

\* _connection_str_from_credentials: f'{host}:{port}/{database_name}'
connection_str_from_credentials(c) == <<c.host, ":", c.port, "/", c.database_name>>

\* a call to the driver that is not a statement of the unit of work
DriverCall(name) == Statement(name, 0, "none", <<>>, <<>>)

\* the handler's view of a session object
Enter(sess, obs) ==
    [objs |-> obs, known |-> sess.known, created |-> sess.created,
     deleted |-> sess.deleted, log |-> <<>>, err |-> "ok",
     connection |-> sess.connection, cursor |-> sess.cursor,
     auto_commit |-> sess.auto_commit, autocommit |-> sess.autocommit,
     connects |-> 0]

\* the session object a handler leaves behind
Leave(sess, st) ==
    [sess EXCEPT !.known = st.known, !.created = st.created, !.deleted = st.deleted,
                 !.connection = st.connection, !.cursor = st.cursor,
                 !.auto_commit = st.auto_commit, !.autocommit = st.autocommit]

\* the auto_commit setter that leaves an open connection as it is
set_auto_commit_flag_only(sess, auto_commit) ==
    IF auto_commit = sess.auto_commit THEN sess
    ELSE [sess EXCEPT !.auto_commit = auto_commit]

\* DatabaseSession.auto_commit (setter)
set_auto_commit(sess, auto_commit) ==
    IF auto_commit = sess.auto_commit THEN sess
    ELSE [sess EXCEPT !.auto_commit = auto_commit,
                      !.autocommit = IF sess.connection = "open" THEN auto_commit ELSE @]

\* _get_local_session that hands out the thread's first session whatever
\* the target
get_local_session_any_target(local, credentials) ==
    IF Len(local) > 0 THEN local[1].obj ELSE 0

\* _get_local_session: the thread's session for the target, 0 for None
get_local_session(local, credentials) ==
    LET connection_str == connection_str_from_credentials(credentials)
    IN  IF DictHas(local, connection_str) THEN DictGet(local, connection_str) ELSE 0

\* _add_local_session
add_local_session(local, credentials, s) ==
    DictSet(local, connection_str_from_credentials(credentials), s)

\* the part of the state a construction works on
World ==
    [sessions |-> sessions, local_sessions |-> local_sessions, handles |-> handles,
     log |-> <<>>, err |-> "ok"]

\* the rest of __new__ once the credentials are settled
NewOrLocal(w, kind, thread, auto_commit, credentials, isolate) ==
    LET session == IF isolate THEN 0
                   ELSE get_local_session(w.local_sessions[thread], credentials)
    IN  IF session # 0
        THEN [w EXCEPT !.sessions[session] = set_auto_commit(@, auto_commit),
                       !.handles = Append(@, [session |-> session, thread |-> thread,
                                              isolate |-> isolate,
                                              key |-> connection_str_from_credentials(credentials)])]
        ELSE LET s    == Len(w.sessions) + 1
                 sess == [known |-> <<>>, created |-> <<>>, deleted |-> <<>>,
                          connection |-> "None", cursor |-> "None",
                          auto_commit |-> auto_commit, autocommit |-> auto_commit,
                          credentials |-> credentials, isolate |-> isolate]
                 st   == IF kind = "sync"
                         THEN execute(Enter(sess, <<>>), DriverCall("SET"))
                         ELSE Enter(sess, <<>>)
             IN  [w EXCEPT !.sessions = Append(@, Leave(sess, st)),
                           !.local_sessions[thread] =
                                IF isolate THEN @ ELSE add_local_session(@, credentials, s),
                           !.handles = Append(@, [session |-> s, thread |-> thread,
                                                  isolate |-> isolate,
                                                  key |-> connection_str_from_credentials(credentials)]),
                           !.log = st.log]

\* __new__ that skips the configuration check
DatabaseSession_unchecked(w, kind, is_configured, dflt, thread, auto_commit, cr, isolate) ==
    NewOrLocal(w, kind, thread, auto_commit,
               IF cr = NoCredentials THEN Credentials(dflt, NoKeywords)
               ELSE Credentials(dflt, cr),
               isolate)

\* DatabaseSession.__new__ / AsyncDatabaseSession.__new__
DatabaseSession(w, kind, is_configured, dflt, thread, auto_commit, cr, isolate) ==
    IF cr = NoCredentials /\ ~is_configured
    THEN [w EXCEPT !.err = "RuntimeError"]
    ELSE NewOrLocal(w, kind, thread, auto_commit,
                    IF cr = NoCredentials THEN Credentials(dflt, NoKeywords)
                    ELSE Credentials(dflt, cr),
                    isolate)

\* self._connection.commit()
driver_commit(st) == [connection(st) EXCEPT !.log = Append(@, DriverCall("COMMIT"))]

\* the commit that follows flush(), not reached when flush() raised
connection_commit(st) == IF st.err # "ok" THEN st ELSE driver_commit(st)

\* commit() that commits whatever flush() did
commit_despite_error(st, kind, d) == driver_commit(flush(st, kind, d))

\* DatabaseSession.commit / AsyncDatabaseSession.commit
commit(st, kind, d) == connection_commit(flush(st, kind, d))

\* DatabaseSession.expunge_all
expunge_all(st) == [st EXCEPT !.known = <<>>, !.created = <<>>, !.deleted = <<>>]

\* rollback() that keeps the session's collections
rollback_keep(st) ==
    [connection(st) EXCEPT !.log = Append(@, DriverCall("ROLLBACK"))]

\* DatabaseSession.rollback / AsyncDatabaseSession.rollback
rollback(st) ==
    expunge_all([connection(st) EXCEPT !.log = Append(@, DriverCall("ROLLBACK"))])

\* self.cursor.close(), reached when commit() returned
close_cursor(st) == IF st.err # "ok" THEN st ELSE [st EXCEPT !.cursor = "closed"]

\* if self.connection and not self.connection.closed: self.connection.close()
close_connection(st) ==
    IF st.err # "ok" THEN st
    ELSE IF st.connection = "open"
    THEN [st EXCEPT !.connection = "closed", !.log = Append(@, DriverCall("CLOSE"))]
    ELSE st

\* DatabaseSession.close / AsyncDatabaseSession.close
close(st, kind, d) ==
    close_connection(IF st.cursor = "open"
                     THEN close_cursor(commit(st, kind, d))
                     ELSE st)

\* Two entities built before the session is used: A(id=1) and N()
LifeInit ==
    /\ objs = <<Construct("A", [id |-> 1, label |-> None]),
                Construct("N", [label |-> None])>>
    /\ known_objects = <<>>
    /\ created_objects = <<>>
    /\ deleted_objects = <<>>
    /\ connection_closed = TRUE
    /\ session_kind \in {"sync", "async"}
    /\ log = <<>>
    /\ err = "ok"
    /\ last_op = [name |-> "init", obj |-> 0, tracked |-> FALSE]
    /\ stmt = NoStatement
    /\ assigned = <<{"id"}, {}>>
    /\ nops = 0
    /\ LifeIdle
    /\ RegIdle
    /\ call = NoCall
    /\ result = 0

\* what the session holds that no statement has written yet: tracked
\* objects without a row and deferred deletes
Outstanding(sess, obs) ==
    Cardinality({i \in DOMAIN sess.known : ~obs[sess.known[i].obj].exists_in_db})
    + Cardinality({i \in DOMAIN sess.created : ~obs[sess.created[i]].exists_in_db})
    + Len(sess.deleted)

\* the handler's effects stored back, and what the caller saw of the call
Return(name, s, st) ==
    /\ sessions' = [sessions EXCEPT ![s] = Leave(@, st)]
    /\ objs' = st.objs
    /\ log' = st.log
    /\ err' = st.err
    /\ call' = [name |-> name, session |-> s,
                pending |-> Outstanding(sessions[s], objs),
                was_open |-> sessions[s].connection = "open"]
    /\ nops' = nops + 1
    /\ UNCHANGED <<known_objects, created_objects, deleted_objects, connection_closed,
                   session_kind, last_op, stmt, assigned, configured,
                   default_credentials, local_sessions, handles, reg_vars, result>>

\* DatabaseSession.configure(username=..., password=..., database_name=...)
Configure ==
    /\ nops < MaxCalls
    /\ \E database_name \in Databases :
          default_credentials' = [username |-> "u1", host |-> DefaultHost,
                                  port |-> DefaultPort, database_name |-> database_name]
    /\ configured' = TRUE
    /\ call' = [name |-> "configure", session |-> 0]
    /\ log' = <<>>
    /\ err' = "ok"
    /\ nops' = nops + 1
    /\ UNCHANGED <<objs, known_objects, created_objects, deleted_objects,
                   connection_closed, session_kind, last_op, stmt, assigned,
                   sessions, local_sessions, handles, reg_vars, result>>

\* DatabaseSession(auto_commit=..., credentials=..., isolate=...) in a thread
NewSession ==
    /\ nops < MaxCalls
    /\ Len(handles) < MaxHandles
    /\ \E thread \in Threads : \E auto_commit \in BOOLEAN : \E isolate \in BOOLEAN :
       \E cr \in CredentialArgs \cup {NoCredentials} :
       \E w \in {DatabaseSession(World, session_kind, configured, default_credentials,
                               thread, auto_commit, cr, isolate)} :
              /\ Len(w.sessions) <= MaxSessions
              /\ sessions' = w.sessions
              /\ local_sessions' = w.local_sessions
              /\ handles' = w.handles
              /\ log' = w.log
              /\ err' = w.err
              /\ call' = [name |-> "new",
                          session |-> IF w.err = "ok" THEN w.handles[Len(w.handles)].session ELSE 0,
                          auto_commit |-> auto_commit,
                          explicit |-> cr # NoCredentials,
                          changed |-> /\ w.err = "ok"
                                      /\ Len(w.sessions) = Len(sessions)
                                      /\ w.sessions # sessions]
    /\ nops' = nops + 1
    /\ UNCHANGED <<objs, known_objects, created_objects, deleted_objects,
                   connection_closed, session_kind, last_op, stmt, assigned,
                   configured, default_credentials, reg_vars, result>>

\* handle.auto_commit = v
SetAutoCommit ==
    /\ nops < MaxCalls
    /\ \E h \in DOMAIN handles : \E v \in BOOLEAN :
          LET s == handles[h].session
          IN  /\ sessions' = [sessions EXCEPT ![s] = set_auto_commit(@, v)]
              /\ call' = [name |-> "set_auto_commit", session |-> s, auto_commit |-> v,
                          changed |-> sessions[s].auto_commit # v]
    /\ log' = <<>>
    /\ err' = "ok"
    /\ nops' = nops + 1
    /\ UNCHANGED <<objs, known_objects, created_objects, deleted_objects,
                   connection_closed, session_kind, last_op, stmt, assigned,
                   configured, default_credentials, local_sessions, handles,
                   reg_vars, result>>

\* handle.add(obj)
SessionAdd ==
    /\ nops < MaxCalls
    /\ \E h \in DOMAIN handles : \E o \in DOMAIN objs : \E d \in RealVals :
          LET s == handles[h].session
          IN  Return("add", s, add(Enter(sessions[s], objs), o, d))

\* handle.delete(obj)
SessionDelete ==
    /\ nops < MaxCalls
    /\ \E h \in DOMAIN handles : \E o \in DOMAIN objs :
          LET s == handles[h].session
          IN  Return("delete", s, delete(Enter(sessions[s], objs), primary_str(objs[o]), o).st)

\* handle.commit()
SessionCommit ==
    /\ nops < MaxCalls
    /\ \E h \in DOMAIN handles : \E d \in RealVals :
          LET s == handles[h].session
          IN  Return("commit", s, commit(Enter(sessions[s], objs), session_kind, d))

\* handle.rollback()
SessionRollback ==
    /\ nops < MaxCalls
    /\ \E h \in DOMAIN handles :
          LET s == handles[h].session
          IN  Return("rollback", s, rollback(Enter(sessions[s], objs)))

\* handle.close()
SessionClose ==
    /\ nops < MaxCalls
    /\ \E h \in DOMAIN handles : \E d \in RealVals :
          LET s == handles[h].session
          IN  Return("close", s, close(Enter(sessions[s], objs), session_kind, d))

LifeNext ==
    \/ Configure \/ NewSession \/ SetAutoCommit \/ SessionAdd \/ SessionDelete
    \/ SessionCommit \/ SessionRollback \/ SessionClose

LifeSpec == LifeInit /\ [][LifeNext]_vars

(* ---------------------------------------------------------------------- *)
(* Cooperative tasks                                                       *)
(* ---------------------------------------------------------------------- *)
\* the cooperative tasks an event loop of a thread runs
Tasks == 1..NTasks

\* nothing constructed yet, the session class is the cooperative one
TaskInit == LifeInit /\ session_kind = "async"

\* AsyncDatabaseSession(auto_commit=..., credentials=..., isolate=...) called
\* by a cooperative task of a thread; the handle remembers the task
NewSessionInTask ==
    /\ nops < MaxCalls
    /\ Len(handles) < MaxHandles
    /\ \E thread \in Threads : \E task \in Tasks : \E auto_commit \in BOOLEAN :
       \E isolate \in BOOLEAN : \E cr \in CredentialArgs \cup {NoCredentials} :
       \E w \in {DatabaseSession(World, session_kind, configured, default_credentials,
                               thread, auto_commit, cr, isolate)} :
              /\ Len(w.sessions) <= MaxSessions
              /\ sessions' = w.sessions
              /\ local_sessions' = w.local_sessions
              /\ handles' = IF w.err # "ok" THEN handles
                            ELSE Append(handles,
                                        [session |-> w.handles[Len(w.handles)].session,
                                         thread |-> thread, task |-> task,
                                         isolate |-> isolate,
                                         key |-> w.handles[Len(w.handles)].key])
              /\ log' = w.log
              /\ err' = w.err
              /\ call' = [name |-> "new",
                          session |-> IF w.err = "ok" THEN w.handles[Len(w.handles)].session ELSE 0,
                          auto_commit |-> auto_commit,
                          explicit |-> cr # NoCredentials,
                          changed |-> /\ w.err = "ok"
                                      /\ Len(w.sessions) = Len(sessions)
                                      /\ w.sessions # sessions]
    /\ nops' = nops + 1
    /\ UNCHANGED <<objs, known_objects, created_objects, deleted_objects,
                   connection_closed, session_kind, last_op, stmt, assigned,
                   configured, default_credentials, reg_vars, result>>

TaskNext == Configure \/ NewSessionInTask

TaskSpec == TaskInit /\ [][TaskNext]_vars

(* ---------------------------------------------------------------------- *)
(* Cooperative tasks on one session: a task runs until it awaits something *)
(* that is not ready.  In add() that is AsyncConnection.connect, awaited by *)
(* _connection when the session has no open connection; every other await  *)
(* of add() returns without giving up control.                             *)
(* ---------------------------------------------------------------------- *)
\* the entities the tasks work with: their identities differ or are empty
CoopObjects ==
    {Construct("A", [id |-> 1, label |-> v]) : v \in Vals}
    \cup {Construct("B", [k1 |-> 1, k2 |-> 1, label |-> v]) : v \in Vals}
    \cup {Construct("N", [label |-> v]) : v \in Vals}

\* a task that is not inside a call on the session
Idle == [pc |-> "idle", obj |-> 0]

CoopInit ==
    /\ objs \in [1..NObj -> CoopObjects]
    /\ \A i, j \in 1..NObj :
          (i # j /\ primary_str(objs[i]) # <<>>) => primary_str(objs[i]) # primary_str(objs[j])
    /\ known_objects = <<>>
    /\ created_objects = <<>>
    /\ deleted_objects = <<>>
    /\ connection_closed = TRUE
    /\ session_kind = "async"
    /\ log = <<>>
    /\ err = "ok"
    /\ last_op = [name |-> "init", obj |-> 0, tracked |-> FALSE]
    /\ stmt = NoStatement
    /\ assigned = [o \in 1..NObj |-> {}]
    /\ nops = 0
    /\ LifeIdle
    /\ RegIdle
    /\ call = [t \in Tasks |-> Idle]
    /\ result = [added |-> {}]

\* what a step of a task leaves of the session
CoopCommit(st) ==
    /\ objs' = st.objs
    /\ known_objects' = st.known
    /\ created_objects' = st.created
    /\ deleted_objects' = st.deleted
    /\ connection_closed' = (st.connection # "open")
    /\ UNCHANGED <<session_kind, log, err, last_op, stmt, assigned, life_vars, reg_vars>>

\* await session.add(obj) in task t, up to its first suspension: with an open
\* connection and cursor the call runs to its end; otherwise _cursor awaits
\* _connection, which finds no open connection and awaits
\* AsyncConnection.connect
CoopAdd(t) ==
    /\ nops < MaxOps
    /\ call[t].pc = "idle"
    /\ \E o \in DOMAIN objs : \E d \in RealVals :
          IF connection_closed
          THEN /\ call' = [call EXCEPT ![t] = [pc |-> "connect", obj |-> o]]
               /\ UNCHANGED <<objs, known_objects, created_objects, deleted_objects,
                              connection_closed, session_kind, log, err, last_op, stmt,
                              assigned, life_vars, reg_vars, result>>
          ELSE /\ CoopCommit(add(SessionState, o, d))
               /\ result' = [result EXCEPT !.added = @ \cup {o}]
               /\ UNCHANGED call
    /\ nops' = nops + 1

\* AsyncConnection.connect of task t completes: _connection assigns the
\* connection and binds three fresh collections, _cursor opens the cursor on
\* it, and add() runs to its end
CoopConnected(t) ==
    /\ call[t].pc = "connect"
    /\ \E d \in RealVals :
          CoopCommit(add([connect(SessionState, TRUE) EXCEPT !.cursor = "open"],
                         call[t].obj, d))
    /\ result' = [result EXCEPT !.added = @ \cup {call[t].obj}]
    /\ call' = [call EXCEPT ![t] = Idle]
    /\ UNCHANGED nops

\* session.delete(obj) in task t: no await, the call runs to its end
CoopDelete(t) ==
    /\ nops < MaxOps
    /\ call[t].pc = "idle"
    /\ \E o \in DOMAIN objs :
          /\ CoopCommit(delete(SessionState, primary_str(objs[o]), o).st)
          /\ result' = [result EXCEPT !.added = @ \ {o}]
    /\ nops' = nops + 1
    /\ UNCHANGED call

CoopNext == \E t \in Tasks : CoopAdd(t) \/ CoopConnected(t) \/ CoopDelete(t)

CoopSpec == CoopInit /\ [][CoopNext]_vars

(* ---------------------------------------------------------------------- *)
(* Statement rendering                                                     *)
(*                                                                         *)
(* A rendered statement is a sequence of tokens: SQL text, identifiers,    *)
(* named placeholders and literals written into the text.  The parameter   *)
(* map is a dict from the index i of the name "param<i>" to the value.     *)
(* ---------------------------------------------------------------------- *)
SQL(s) == [t |-> "SQL", s |-> s, n |-> 0]

Identifier(s) == [t |-> "Identifier", s |-> s, n |-> 0]

\* Placeholder(f'param{n}')
Placeholder(n) == [t |-> "Placeholder", s |-> "param", n |-> n]

\* Placeholder(bind_param.name)
BindPlaceholder(s) == [t |-> "Placeholder", s |-> s, n |-> 0]

\* Literal(v): the value written into the statement text
Literal(v) == [t |-> "Literal", s |-> "", n |-> v]

\* what a value handed to a clause can be: a Python value, None, a Column,
\* a BindParam
Operand(kind, v, s) == [kind |-> kind, v |-> v, s |-> s]

LiteralOperands == {Operand("literal", v, "") : v \in RealVals}

Operands ==
    LiteralOperands
    \cup {Operand("None", 0, ""), Operand("column", 0, "label"), Operand("bind", 0, "b")}

\* Encryption.encrypt: a falsy value gives the empty text, any other value
\* its ciphertext
encrypt(v) == IF v = 0 THEN 0 ELSE 0 - v

\* QueryParams.next_param_name: the first index whose name is not a key
next_param_name(params) ==
    CHOOSE i \in 0..Len(params) :
       /\ ~DictHas(params, i)
       /\ \A j \in 0..(i - 1) : DictHas(params, j)

\* set_param() that reuses the name of a parameter holding an equal value
set_param_shared(params, value) ==
    IF \E i \in DOMAIN params : params[i].obj = value THEN params
    ELSE DictSet(params, next_param_name(params), value)

\* QueryParams.set_param: the map after the call; the name returned is
\* next_param_name of the map before it
set_param(params, value) == DictSet(params, next_param_name(params), value)

\* one more token and the parameter map left by producing it
Emit(r, token, params) == [r EXCEPT !.text = Append(@, token), !.params = params]

\* _transform_queryable: the operand of an operator
transform_queryable(r, value) ==
    CASE value.kind = "None"   -> Emit(r, SQL("NULL"), r.params)
      [] value.kind = "column" -> Emit(r, Identifier(value.s), r.params)
      [] value.kind = "bind"   -> Emit(r, BindPlaceholder(value.s), r.params)
      [] OTHER -> Emit(r, Placeholder(next_param_name(r.params)), set_param(r.params, value.v))

\* Query._sql_str for a SET value (parameterize=True)
sql_str(r, value) ==
    CASE value.kind = "None"   -> Emit(r, SQL("NULL"), r.params)
      [] value.kind = "column" -> Emit(r, Identifier(value.s), r.params)
      [] value.kind = "bind"   -> Emit(r, BindPlaceholder(value.s), r.params)
      [] OTHER -> Emit(r, Placeholder(next_param_name(r.params)), set_param(r.params, value.v))

\* SQL('{} {} {}').format(left, op, right) once both sides are transformed:
\* the text of r0 followed by left, op, right
Infix(r0, r2, op) ==
    [r2 EXCEPT !.text = r0.text \o <<r2.text[Len(r0.text) + 1], SQL(op),
                                     r2.text[Len(r0.text) + 2]>>]

\* Between.build: SQL('{} BETWEEN {} AND {}').format(left, self.parse(),
\* right1, right2), where parse() returns None
BetweenFormat(r0, r3) ==
    [r3 EXCEPT !.text = r0.text \o <<r3.text[Len(r0.text) + 1], SQL("BETWEEN"),
                                     SQL("NULL"), SQL("AND"),
                                     r3.text[Len(r0.text) + 2]>>]

\* Operator.build / Between.build
build(r, operator) ==
    IF operator.op = "BETWEEN"
    THEN IF operator.right2.kind = "None" THEN [r EXCEPT !.err = "ValueError"]
         ELSE BetweenFormat(r,
                 transform_queryable(
                    transform_queryable(
                       transform_queryable(r, operator.left), operator.right),
                    operator.right2))
    ELSE Infix(r, transform_queryable(transform_queryable(r, operator.left),
                                      operator.right),
               operator.op)

\* sep.join(...) over clauses that hold an operator only
RECURSIVE ParseAll(_, _, _, _)
ParseAll(r, clauses, i, sep) ==
    IF i > Len(clauses) \/ r.err # "ok" THEN r
    ELSE ParseAll(build(Emit(r, SQL(sep), r.params), clauses[i].operator),
                  clauses, i + 1, sep)

\* the text from position n on wrapped as NOT (...)
Negate(r, n) ==
    [r EXCEPT !.text = SubSeq(@, 1, n) \o <<SQL("NOT (")>>
                       \o SubSeq(@, n + 1, Len(@)) \o <<SQL(")")>>]

\* the closing bracket of a clause with alternatives
CloseOr(r, clause) ==
    IF clause.or_ # <<>> /\ r.err = "ok" THEN Emit(r, SQL(")"), r.params) ELSE r

\* QueryClause.parse
parse_clause(r, clause) ==
    LET n == Len(r.text)
    IN  IF clause.inverted
        THEN Negate(ParseAll(CloseOr(ParseAll(build(IF clause.or_ # <<>>
                                                    THEN Emit(r, SQL("("), r.params)
                                                    ELSE r,
                                                    clause.operator),
                                              clause.or_, 1, "OR"),
                                     clause),
                             clause.and_, 1, "AND"),
                    n)
        ELSE ParseAll(CloseOr(ParseAll(build(IF clause.or_ # <<>>
                                             THEN Emit(r, SQL("("), r.params)
                                             ELSE r,
                                             clause.operator),
                                       clause.or_, 1, "OR"),
                              clause),
                      clause.and_, 1, "AND")

\* Query._sql_str for one entry of the WHERE list: a QueryClause is parsed,
\* a Composable is taken as it is
where_str(r, part) ==
    IF part.kind = "QueryClause" THEN parse_clause(r, part)
    ELSE [r EXCEPT !.text = @ \o part.text]

\* Query._build_where / _build_parts(separator=' AND ')
RECURSIVE build_where(_, _, _)
build_where(r, where, i) ==
    IF i > Len(where) \/ r.err # "ok" THEN r
    ELSE build_where(where_str(Emit(r, SQL(IF i = 1 THEN "WHERE" ELSE "AND"), r.params),
                               where[i]),
                     where, i + 1)

\* Update._parse_set: SQL('SET ') + SQL(', ').join(set_args), the text after
\* the SET keyword
RECURSIVE parse_set(_, _, _)
parse_set(r, set, i) ==
    IF i > Len(set) THEN r
    ELSE parse_set(sql_str(Emit(Emit(IF i = 1 THEN r ELSE Emit(r, SQL(","), r.params),
                                     Identifier(set[i].key), r.params),
                                SQL("="), r.params),
                           set[i].obj),
                   set, i + 1)

\* Select.parse / Update.parse: the statement text and self._params.  The
\* result of _parse_set is a Composed, which is never falsy, so an update
\* without set_() renders an empty SET list
parse(query) ==
    IF query.kind = "update"
    THEN build_where(parse_set([text |-> <<SQL("UPDATE"), SQL("SET")>>,
                                params |-> query.params, err |-> "ok"],
                               query.set, 1),
                     query.where, 1)
    ELSE build_where([text |-> <<SQL("SELECT")>>, params |-> query.params, err |-> "ok"],
                     query.where, 1)

\* Column.__eq__ and friends, Column.between: a clause on a column
QueryClause(op, right, right2) ==
    [kind |-> "QueryClause",
     operator |-> [op |-> op, left |-> Operand("column", 0, "id"),
                   right |-> right, right2 |-> right2],
     or_ |-> <<>>, and_ |-> <<>>, inverted |-> FALSE, text |-> <<>>]

\* EncryptedColumn.__eq__: the ciphertext of a value is compared
EncryptedEquals(other) ==
    QueryClause("=", IF other.kind = "literal"
                     THEN Operand("literal", encrypt(other.v), "")
                     ELSE other,
                Operand("None", 0, ""))

\* EncryptedColumn.__ne__: SQL('{} != {}').format(column, other), a
\* Composable in which a value that is no Composable becomes a Literal
EncryptedNotEquals(other) ==
    [kind |-> "Composable",
     operator |-> [op |-> "!=", left |-> Operand("column", 0, "email"),
                   right |-> other, right2 |-> Operand("None", 0, "")],
     or_ |-> <<>>, and_ |-> <<>>, inverted |-> FALSE,
     text |-> <<Identifier("email"), SQL("!="),
                CASE other.kind = "literal" -> Literal(encrypt(other.v))
                  [] other.kind = "column"  -> Identifier(other.s)
                  [] OTHER                  -> SQL("NULL")>>]

\* the clauses a caller can hand to where()
Criteria ==
    {QueryClause(op, right, Operand("None", 0, "")) : op \in {"=", "!="}, right \in Operands}
    \cup {QueryClause("BETWEEN", right, right2) : right \in Operands, right2 \in Operands}
    \cup {EncryptedEquals(other) : other \in LiteralOperands}
    \cup {EncryptedNotEquals(other) :
             other \in LiteralOperands \cup {Operand("None", 0, ""),
                                             Operand("column", 0, "label")}}

\* the clauses joined to another with | or &
Alternatives == {QueryClause("=", right, Operand("None", 0, "")) : right \in Operands}

\* no statement under construction
NoQuery == [name |-> "none", kind |-> "none", where |-> <<>>, set |-> <<>>,
            params |-> <<>>, parts |-> 0, parses |-> 0]

NoRender == [text |-> <<>>, params |-> <<>>, before |-> <<>>]

RenderInit ==
    /\ objs = <<>>
    /\ known_objects = <<>>
    /\ created_objects = <<>>
    /\ deleted_objects = <<>>
    /\ connection_closed = FALSE
    /\ session_kind = "sync"
    /\ log = <<>>
    /\ err = "ok"
    /\ last_op = [name |-> "init", obj |-> 0, tracked |-> FALSE]
    /\ stmt = NoStatement
    /\ assigned = <<>>
    /\ nops = 0
    /\ LifeIdle
    /\ RegIdle
    /\ call = NoQuery
    /\ result = NoRender

\* what a builder call leaves behind
Built(name, query) ==
    /\ call' = [query EXCEPT !.name = name, !.parts = call.parts + 1]
    /\ err' = "ok"
    /\ nops' = nops + 1
    /\ UNCHANGED <<uow_state, life_vars, reg_vars, result>>

\* session.select(Cls) / session.update(Cls): a statement with empty lists
\* and an empty parameter map
NewQuery ==
    /\ call.name = "none"
    /\ \E kind \in {"select", "update"} :
          /\ call' = [NoQuery EXCEPT !.name = "query", !.kind = kind]
          /\ err' = "ok"
          /\ nops' = nops + 1
          /\ UNCHANGED <<uow_state, life_vars, reg_vars, result>>

\* query.where(criterion)
Where ==
    /\ call.name # "none"
    /\ call.parts < MaxParts
    /\ \E criterion \in Criteria :
          Built("where", [call EXCEPT !.where = Append(@, criterion)])

\* clause | other, clause & other, ~clause on the clause handed to where()
Combine ==
    /\ call.name # "none"
    /\ call.parts < MaxParts
    /\ call.parses = 0
    /\ call.where # <<>>
    /\ call.where[Len(call.where)].kind = "QueryClause"
    /\ \/ \E other \in Alternatives :
             Built("or", [call EXCEPT !.where[Len(call.where)].or_ = Append(@, other)])
       \/ \E other \in Alternatives :
             Built("and", [call EXCEPT !.where[Len(call.where)].and_ = Append(@, other)])
       \/ Built("invert", [call EXCEPT !.where[Len(call.where)].inverted = TRUE])

\* update.set_({column: value})
SetValues ==
    /\ call.name # "none"
    /\ call.kind = "update"
    /\ call.parts < MaxParts
    /\ \E column \in {"label", "upd"} : \E value \in Operands :
          Built("set_", [call EXCEPT !.set = DictSet(@, column, value)])

\* query.parse(), as session.execute(query) calls it: the statement is
\* rendered and the parameters are added to the query's own map
Parse ==
    /\ call.name # "none"
    /\ call.parses < MaxParses
    /\ \E r \in {parse(call)} :
          /\ call' = [call EXCEPT !.name = "parse", !.params = r.params,
                                  !.parses = @ + 1]
          /\ result' = [text |-> r.text, params |-> r.params, before |-> call.params]
          /\ err' = r.err
    /\ nops' = nops + 1
    /\ UNCHANGED <<uow_state, life_vars, reg_vars>>

RenderNext == NewQuery \/ Where \/ Combine \/ SetValues \/ Parse

RenderSpec == RenderInit /\ [][RenderNext]_vars

(* ---------------------------------------------------------------------- *)
(* Column types: conversion to and from the database value                 *)
(*                                                                         *)
(* A Python value is its type and its content; str(x), uuid.UUID(x), ...   *)
(* give a value of the other type with the same content.                   *)
(* ---------------------------------------------------------------------- *)
Value(ty, v) == [ty |-> ty, v |-> v]

PyNone == Value("NoneType", 0)

\* python_type of the scalar column types
python_type ==
    [String |-> "str", UUID |-> "UUID", Integer |-> "int", BigInteger |-> "int",
     Float |-> "float", Date |-> "date", DateTime |-> "datetime",
     Boolean |-> "bool", ENUM |-> "Enum"]

ScalarTypes == DOMAIN python_type

\* the native values of a column type, and None
NativeValues(type) == {Value(python_type[type], v) : v \in 0..MaxNative} \cup {PyNone}

\* bool(value) of an Enum member or None
truthy(value) == value # PyNone

\* ColumnType.parse_to_db, UUID.parse_to_db, ENUM.parse_to_db
type_parse_to_db(type, value) ==
    CASE type = "UUID" -> IF value # PyNone THEN Value("str", value.v) ELSE PyNone
      [] type = "ENUM" -> IF truthy(value) THEN Value("str", value.v) ELSE PyNone
      [] OTHER -> value

\* ENUM.parse_value: a text is looked up among the members, anything else
\* that is no member is refused
parse_value(value) ==
    IF value.ty = "str" THEN [value |-> Value("Enum", value.v), err |-> "ok"]
    ELSE IF value.ty # "Enum" THEN [value |-> value, err |-> "TypeError"]
    ELSE [value |-> value, err |-> "ok"]

\* ColumnType.parse_from_db, ENUM.parse_from_db: the value held afterwards
type_parse_from_db(type, db_value) ==
    IF type = "ENUM" THEN parse_value(db_value)
    ELSE IF db_value # PyNone /\ db_value.ty # python_type[type]
         THEN [value |-> Value(python_type[type], db_value.v), err |-> "ok"]
         ELSE [value |-> db_value, err |-> "ok"]

\* a column type holding a value, and the column type of a new instance
\* that a row is loaded into
ColumnTypeCall(name, type, value, wire, loaded) ==
    [name |-> name, type |-> type, value |-> value, wire |-> wire, loaded |-> loaded]

WireInit ==
    /\ objs = <<>>
    /\ known_objects = <<>>
    /\ created_objects = <<>>
    /\ deleted_objects = <<>>
    /\ connection_closed = FALSE
    /\ session_kind = "sync"
    /\ log = <<>>
    /\ err = "ok"
    /\ last_op = [name |-> "init", obj |-> 0, tracked |-> FALSE]
    /\ stmt = NoStatement
    /\ assigned = <<>>
    /\ nops = 0
    /\ LifeIdle
    /\ RegIdle
    /\ result = 0
    /\ \E type \in ScalarTypes : \E value \in NativeValues(type) :
          call = ColumnTypeCall("init", type, value, PyNone, PyNone)

\* Column.parse_to_db: the value sent to the database
ParseToDb ==
    /\ call.name = "init"
    /\ call' = [call EXCEPT !.name = "parse_to_db",
                            !.wire = type_parse_to_db(call.type, call.value)]
    /\ nops' = nops + 1
    /\ UNCHANGED <<uow_state, life_vars, reg_vars, result, err>>

\* Column.parse_from_db on the column of a new instance, handed the value
\* that parse_to_db sent; when it raises the column keeps what it held
ParseFromDb ==
    /\ call.name = "parse_to_db"
    /\ \E r \in {type_parse_from_db(call.type, call.wire)} :
          /\ call' = [call EXCEPT !.name = "parse_from_db",
                                  !.loaded = IF r.err = "ok" THEN r.value ELSE @]
          /\ err' = r.err
    /\ nops' = nops + 1
    /\ UNCHANGED <<uow_state, life_vars, reg_vars, result>>

WireNext == ParseToDb \/ ParseFromDb

WireSpec == WireInit /\ [][WireNext]_vars

(* ---------------------------------------------------------------------- *)
(* One column: the held value and its two flags                            *)
(* ---------------------------------------------------------------------- *)
\* what a column can hold: None or a value
ColumnVals == {None} \cup 1..MaxColumnVal

\* Column.__init__: no value, neither flag set; has_default says whether a
\* default producer was given
NewColumn(has_default_producer) ==
    [value |-> None, value_set |-> FALSE, changed |-> FALSE,
     has_default |-> has_default_producer]

\* Column.get_value: the column afterwards and the value returned; d is
\* what the default producer returns
column_get_value(column, apply_default, d) ==
    IF column.value = None /\ apply_default /\ column.has_default
    THEN [column |-> [column EXCEPT !.value = d], ret |-> d]
    ELSE [column |-> column, ret |-> column.value]

\* set_value() without the comparison with the held value
column_set_value_always(column, value) ==
    [column EXCEPT !.value = value, !.value_set = TRUE, !.changed = TRUE]

\* Column.set_value
column_set_value(column, value) ==
    IF value = column_get_value(column, FALSE, None).ret
    THEN column_get_value(column, FALSE, None).column
    ELSE [column_get_value(column, FALSE, None).column
             EXCEPT !.value = value, !.value_set = TRUE, !.changed = TRUE]

\* Column.parse_from_db: the value is stored, no flag is touched
column_parse_from_db(column, db_value) == [column EXCEPT !.value = db_value]

ColumnCall(name, column, value, before) ==
    [name |-> name, column |-> column, value |-> value, before |-> before]

ColumnInit ==
    /\ objs = <<>>
    /\ known_objects = <<>>
    /\ created_objects = <<>>
    /\ deleted_objects = <<>>
    /\ connection_closed = FALSE
    /\ session_kind = "sync"
    /\ log = <<>>
    /\ err = "ok"
    /\ last_op = [name |-> "init", obj |-> 0, tracked |-> FALSE]
    /\ stmt = NoStatement
    /\ assigned = <<>>
    /\ nops = 0
    /\ LifeIdle
    /\ RegIdle
    /\ result = 0
    /\ \E has_default_producer \in BOOLEAN :
          call = ColumnCall("init", NewColumn(has_default_producer), None,
                            NewColumn(has_default_producer))

ColumnIdle == UNCHANGED <<uow_state, err, nops, life_vars, reg_vars>>

\* column.set_value(value)
ColumnSetValue ==
    /\ \E value \in ColumnVals :
          /\ call' = ColumnCall("set_value", column_set_value(call.column, value), value,
                                call.column)
          /\ result' = 0
    /\ ColumnIdle

\* column.get_value(apply_default)
ColumnGetValue ==
    /\ \E apply_default \in BOOLEAN : \E d \in ColumnVals \ {None} :
          /\ call' = ColumnCall("get_value",
                                column_get_value(call.column, apply_default, d).column,
                                None, call.column)
          /\ result' = column_get_value(call.column, apply_default, d).ret
    /\ ColumnIdle

\* column.parse_from_db(db_value)
ColumnParseFromDb ==
    /\ \E db_value \in ColumnVals :
          /\ call' = ColumnCall("parse_from_db", column_parse_from_db(call.column, db_value),
                                db_value, call.column)
          /\ result' = 0
    /\ ColumnIdle

ColumnNext == ColumnSetValue \/ ColumnGetValue \/ ColumnParseFromDb

ColumnSpec == ColumnInit /\ [][ColumnNext]_vars

(* ---------------------------------------------------------------------- *)
(* Insert with a conflict clause                                           *)
(*                                                                         *)
(* The table has the columns k and m, each under a unique constraint of    *)
(* its own.  The driver's execute is the database acting on the rendered   *)
(* statement and its parameters.                                           *)
(* ---------------------------------------------------------------------- *)
Constraints == {"uq_k", "uq_m"}

\* the column a unique constraint is on
constraint_column(c) == IF c = "uq_k" THEN "k" ELSE "m"

Keys == 1..MaxKey

\* Insert.__init__, then columns(...) and values(...) as build_insert hands
\* them over
NewInsertQuery(k, m) ==
    [name |-> "insert", kind |-> "insert",
     columns |-> <<"k", "m">>,
     values |-> <<Operand("literal", k, ""), Operand("literal", m, "")>>,
     on_conflict_do_nothing |-> FALSE,
     on_conflict_of_constraint |-> NoValue,
     on_conflict_do_update |-> <<>>,
     params |-> <<>>]

\* Insert.on_conflict_do_nothing
on_conflict_do_nothing(query, constraint_name) ==
    [query EXCEPT !.on_conflict_do_nothing = TRUE,
                  !.on_conflict_of_constraint = constraint_name]

\* Insert.on_conflict_do_update
on_conflict_do_update(query, constraint_name, mapping) ==
    [query EXCEPT !.on_conflict_do_update = mapping,
                  !.on_conflict_of_constraint = constraint_name]

\* one more piece of SQL text
EmitSQL(r, s) == Emit(r, SQL(s), r.params)

\* _parse_on_conflict() that renders the DO UPDATE clause only
parse_on_conflict_update_only(r, query) ==
    IF query.on_conflict_do_update # <<>> /\ query.on_conflict_of_constraint # NoValue
    THEN sql_str(EmitSQL(Emit(EmitSQL(Emit(EmitSQL(r, "ON CONFLICT ON CONSTRAINT"),
                                           Identifier(query.on_conflict_of_constraint),
                                           r.params),
                                      "DO UPDATE SET"),
                              Identifier(query.on_conflict_do_update[1].key), r.params),
                         "="),
                 query.on_conflict_do_update[1].obj)
    ELSE r

\* Insert._parse_on_conflict
parse_on_conflict(r, query) ==
    IF query.on_conflict_do_nothing
    THEN IF query.on_conflict_of_constraint # NoValue
         THEN EmitSQL(Emit(EmitSQL(r, "ON CONFLICT ON CONSTRAINT"),
                           Identifier(query.on_conflict_of_constraint), r.params),
                      "DO NOTHING")
         ELSE EmitSQL(r, "ON CONFLICT DO NOTHING")
    ELSE IF query.on_conflict_do_update # <<>> /\ query.on_conflict_of_constraint # NoValue
         THEN sql_str(EmitSQL(Emit(EmitSQL(Emit(EmitSQL(r, "ON CONFLICT ON CONSTRAINT"),
                                                Identifier(query.on_conflict_of_constraint),
                                                r.params),
                                           "DO UPDATE SET"),
                                   Identifier(query.on_conflict_do_update[1].key), r.params),
                              "="),
                      query.on_conflict_do_update[1].obj)
         ELSE r

\* Query._build_parts: the parts joined by ', '
RECURSIVE build_parts(_, _, _)
build_parts(r, parts, i) ==
    IF i > Len(parts) THEN r
    ELSE build_parts(sql_str(IF i = 1 THEN r ELSE EmitSQL(r, ","), parts[i]),
                     parts, i + 1)

\* Insert.parse: INSERT INTO t (columns) VALUES (values) [conflict clause]
parse_insert(query) ==
    parse_on_conflict(
       EmitSQL(build_parts(
                  EmitSQL(build_parts([text |-> <<SQL("INSERT INTO"), Identifier("t"),
                                                  SQL("(")>>,
                                       params |-> query.params, err |-> "ok"],
                                      [i \in DOMAIN query.columns |->
                                          Operand("column", 0, query.columns[i])], 1),
                          ") VALUES ("),
                  query.values, 1),
               ")"),
       query)

\* the value the database receives for the token at position i
Received(text, params, i) == DictGet(params, text[i].n)

\* the stored rows a proposed row collides with under constraint c
Conflicts(rows, row, c) ==
    {e \in rows : e[constraint_column(c)] = row[constraint_column(c)]}

\* the database on INSERT ... [ON CONFLICT ...]: the rows afterwards and the
\* error the driver raises
database_insert(rows, text, params) ==
    LET row == [k |-> Received(text, params, 8), m |-> Received(text, params, 10)]
        clause == SubSeq(text, 12, Len(text))
        plain == IF \E c \in Constraints : Conflicts(rows, row, c) # {}
                 THEN [rows |-> rows, err |-> "UniqueViolation"]
                 ELSE [rows |-> rows \cup {row}, err |-> "ok"]
    IN  IF clause = <<>> THEN plain
        ELSE IF clause[1] = SQL("ON CONFLICT DO NOTHING")
        THEN IF \E c \in Constraints : Conflicts(rows, row, c) # {}
             THEN [rows |-> rows, err |-> "ok"]
             ELSE plain
        ELSE IF Conflicts(rows, row, clause[2].s) = {} THEN plain
        ELSE IF clause[3] = SQL("DO NOTHING") THEN [rows |-> rows, err |-> "ok"]
        ELSE LET e == CHOOSE e \in Conflicts(rows, row, clause[2].s) : TRUE
                 v == Received(clause, params, 6)
             IN  IF \E o \in rows \ {e} : o.m = v
                 THEN [rows |-> rows, err |-> "UniqueViolation"]
                 ELSE [rows |-> (rows \ {e}) \cup {[e EXCEPT !.m = v]}, err |-> "ok"]

ConflictInit ==
    /\ objs = <<>>
    /\ known_objects = <<>>
    /\ created_objects = <<>>
    /\ deleted_objects = <<>>
    /\ connection_closed = FALSE
    /\ session_kind = "sync"
    /\ log = <<>>
    /\ err = "ok"
    /\ last_op = [name |-> "init", obj |-> 0, tracked |-> FALSE]
    /\ stmt = NoStatement
    /\ assigned = <<>>
    /\ nops = 0
    /\ LifeIdle
    /\ RegIdle
    /\ call = [NewInsertQuery(1, 1) EXCEPT !.name = "none"]
    /\ result = [rows |-> {}]

ConflictIdle ==
    UNCHANGED <<objs, known_objects, created_objects, deleted_objects, connection_closed,
                session_kind, last_op, stmt, assigned, nops, life_vars, reg_vars>>

\* session.insert(entity): build_insert for an entity with the values k, m
NewInsert ==
    /\ err = "ok"
    /\ Len(log) < MaxExec
    /\ \E k \in Keys : \E m \in Keys : call' = NewInsertQuery(k, m)
    /\ UNCHANGED <<log, err, result>>
    /\ ConflictIdle

\* insert.on_conflict_do_nothing(constraint_name)
OnConflictDoNothing ==
    /\ err = "ok"
    /\ call.name # "none"
    /\ \E constraint_name \in Constraints \cup {NoValue} :
          call' = on_conflict_do_nothing(call, constraint_name)
    /\ UNCHANGED <<log, err, result>>
    /\ ConflictIdle

\* insert.on_conflict_do_update(constraint_name, {m: value})
OnConflictDoUpdate ==
    /\ err = "ok"
    /\ call.name # "none"
    /\ \E constraint_name \in Constraints : \E value \in Keys :
          call' = on_conflict_do_update(call, constraint_name,
                                        <<[key |-> "m", obj |-> Operand("literal", value, "")]>>)
    /\ UNCHANGED <<log, err, result>>
    /\ ConflictIdle

\* insert.execute(): session.execute(insert) renders the statement and hands
\* it with the parameters to the cursor
ExecuteInsert ==
    /\ err = "ok"
    /\ call.name # "none"
    /\ Len(log) < MaxExec
    /\ \E r \in {parse_insert(call)} :
          \E db \in {database_insert(result.rows, r.text, r.params)} :
             /\ call' = [call EXCEPT !.params = r.params]
             /\ log' = Append(log, [query |-> call, text |-> r.text, params |-> r.params,
                                    before |-> result.rows])
             /\ result' = [rows |-> db.rows]
             /\ err' = db.err
    /\ ConflictIdle

ConflictNext == NewInsert \/ OnConflictDoNothing \/ OnConflictDoUpdate \/ ExecuteInsert

ConflictSpec == ConflictInit /\ [][ConflictNext]_vars

(* ---------------------------------------------------------------------- *)
(* Write statements with returning(...) targets: INSERT, UPDATE and DELETE *)
(* on table t, rendered by their parse() and hydrated by _return_types     *)
(* ---------------------------------------------------------------------- *)
MaxReturning == 3

\* what returning(...) is handed: the entity type or one of its columns
ReturnTargets == {Operand("model", 0, "t"), Operand("column", 0, "id"),
                  Operand("column", 0, "label")}

\* session.insert(T).columns(...).values(...), session.update(T).set_(...)
\* .where(...), session.delete(T).where(...): Returnable.__init__ starts
\* with an empty _returning list
NewWriteQuery(kind) ==
    [name |-> "write", kind |-> kind,
     columns |-> IF kind = "insert" THEN <<"id", "label">> ELSE <<>>,
     values |-> IF kind = "insert"
                THEN <<Operand("literal", 1, ""), Operand("literal", 1, "")>> ELSE <<>>,
     on_conflict_do_nothing |-> FALSE,
     on_conflict_of_constraint |-> NoValue,
     on_conflict_do_update |-> <<>>,
     set |-> IF kind = "update" THEN <<[key |-> "label", obj |-> Operand("literal", 1, "")]>>
             ELSE <<>>,
     where |-> IF kind = "insert" THEN <<>>
               ELSE <<QueryClause("=", Operand("literal", 1, ""), Operand("None", 0, ""))>>,
     returning |-> <<>>,
     params |-> <<>>]

\* Returnable.returning
returning(query, obj) == [query EXCEPT !.returning = Append(@, obj)]

\* Returnable._return_types
return_types(query) == query.returning

\* Returnable._parse_returning, the arguments joined by ', ': an entity type
\* renders as "t".*, anything else through _sql_str
RECURSIVE returning_args(_, _, _)
returning_args(r, args, i) ==
    IF i > Len(args) THEN r
    ELSE returning_args(
            IF args[i].kind = "model"
            THEN EmitSQL(Emit(IF i = 1 THEN r ELSE EmitSQL(r, ","),
                              Identifier(args[i].s), r.params), ".*")
            ELSE sql_str(IF i = 1 THEN r ELSE EmitSQL(r, ","), args[i]),
            args, i + 1)

\* Returnable._parse_returning: None without targets
parse_returning(r, query) ==
    IF query.returning = <<>> THEN r
    ELSE returning_args(EmitSQL(r, "RETURNING"), query.returning, 1)

\* Delete.parse: DELETE FROM t [WHERE ...]
parse_delete(query) ==
    build_where([text |-> <<SQL("DELETE FROM"), Identifier("t")>>,
                 params |-> query.params, err |-> "ok"],
                query.where, 1)

\* Insert.parse, Update.parse, Delete.parse: only Update.parse appends what
\* _parse_returning gives
parse_write(query) ==
    CASE query.kind = "insert" -> parse_insert(query)
      [] query.kind = "update" -> parse_returning(parse(query), query)
      [] OTHER                 -> parse_delete(query)

NoWrite == [NewWriteQuery("none") EXCEPT !.name = "none"]

ReturnInit ==
    /\ objs = <<>>
    /\ known_objects = <<>>
    /\ created_objects = <<>>
    /\ deleted_objects = <<>>
    /\ connection_closed = FALSE
    /\ session_kind = "sync"
    /\ log = <<>>
    /\ err = "ok"
    /\ last_op = [name |-> "init", obj |-> 0, tracked |-> FALSE]
    /\ stmt = NoStatement
    /\ assigned = <<>>
    /\ nops = 0
    /\ LifeIdle
    /\ RegIdle
    /\ call = NoWrite
    /\ result = [text |-> <<>>, params |-> <<>>, return_types |-> <<>>]

ReturnIdle ==
    UNCHANGED <<objs, known_objects, created_objects, deleted_objects, connection_closed,
                session_kind, log, last_op, stmt, assigned, nops, life_vars, reg_vars>>

\* session.insert(T)..., session.update(T)..., session.delete(T)...
NewWrite ==
    /\ \E kind \in {"insert", "update", "delete"} : call' = NewWriteQuery(kind)
    /\ UNCHANGED <<err, result>>
    /\ ReturnIdle

\* query.returning(target)
Returning ==
    /\ call.name # "none"
    /\ Len(call.returning) < MaxReturning
    /\ \E obj \in ReturnTargets : call' = [returning(call, obj) EXCEPT !.name = "returning"]
    /\ UNCHANGED <<err, result>>
    /\ ReturnIdle

\* session.execute(query): parse() renders the statement, and each row the
\* cursor gives is built by _build_result from _return_types
ExecuteWrite ==
    /\ call.name \in {"write", "returning"}
    /\ \E r \in {parse_write(call)} :
          /\ call' = [call EXCEPT !.name = "execute", !.params = r.params]
          /\ result' = [text |-> r.text, params |-> r.params,
                        return_types |-> return_types(call)]
          /\ err' = r.err
    /\ ReturnIdle

ReturnNext == NewWrite \/ Returning \/ ExecuteWrite

ReturnSpec == ReturnInit /\ [][ReturnNext]_vars

(* ---------------------------------------------------------------------- *)
(* Relationships                                                           *)
(* ---------------------------------------------------------------------- *)
\* the parent and the child entity type, and a type whose relationship has
\* no foreign key behind it
RelClasses == {"P", "C", "L"}

\* ForeignKey.ref_table_name of column c of cls, NoValue for other columns
ref_table_name(cls, c) == IF cls = "C" /\ c = "p_id" THEN "P" ELSE NoValue

\* the class a Relationship attribute of cls refers to: C.p -> P, P.cs -> C,
\* L.x -> P
ref_table_cls(cls) == IF cls \in {"C", "L"} THEN "P" ELSE "C"

\* the attributes a column object has: those Column.__init__ and clone()
\* assign, and Relationship's ref_table_name
ColumnAttrs ==
    {"_col_type", "auto_increment", "_value_set", "changed", "_default", "on_update",
     "name", "primary_key", "nullable", "attr_name", "table_name", "table_class",
     "ref_table_name"}

\* the value of column c in cls.selectable_columns(): columns() clones the
\* class attributes, which hold no instance's value
class_column_value(cls, c) == None

\* Relationship.fk_column: the first foreign key of cls that references
\* ref, NoValue for None
fk_column(cls, ref) ==
    LET fks == SelectSeq(Columns(cls), LAMBDA c : ref_table_name(cls, c) = ref)
    IN  IF fks = <<>> THEN NoValue ELSE fks[1]

\* for obj in session.known_objects.values(): the first object of ref_cls
\* with a primary-key column equal to ref_id, 0 if the loop ends
RECURSIVE known_lookup(_, _, _, _)
known_lookup(st, ref_cls, ref_id, i) ==
    IF i > Len(st.known) THEN 0
    ELSE LET o == st.known[i].obj
         IN  IF /\ st.objs[o].cls = ref_cls
                /\ \E c \in ColSet(ref_cls) :
                      primary_key(ref_cls, c) /\ st.objs[o].val[c] = ref_id
             THEN o
             ELSE known_lookup(st, ref_cls, ref_id, i + 1)

\* session.select(ref_cls).where(col = ref_id).first(): the statement is
\* executed; found says whether the driver returns a row
select_first(st, ref_cls, col, ref_id, found, d) ==
    LET st1 == execute(st, Statement("SELECT", 0, "none", <<>>, <<>>))
        row == [c \in ColSet(ref_cls) |-> IF c = col THEN ref_id ELSE 1]
    IN  IF found
        THEN [st |-> build_result(st1, ref_cls, row, d), ret |-> Len(st.objs) + 1]
        ELSE [st |-> st1, ret |-> 0]

\* Relationship._get_from_session on the relationship of object o; ret is
\* the object returned, 0 for None
get_from_session(st, o, found, d) ==
    LET cls     == st.objs[o].cls
        ref_cls == ref_table_cls(cls)
        fk      == fk_column(cls, ref_cls)
        ref_id  == IF fk = NoValue THEN None ELSE class_column_value(cls, fk)
        hit     == known_lookup(st, ref_cls, ref_id, 1)
    IN  IF ref_id = None THEN [st |-> st, ret |-> 0]
        ELSE IF hit # 0 THEN [st |-> st, ret |-> hit]
        ELSE select_first(st, ref_cls, "id", ref_id, found, d)

\* AsyncRelationship._get_parent_from_session
get_parent_from_session(st, o, fk, found, d) ==
    LET cls     == st.objs[o].cls
        ref_cls == ref_table_cls(cls)
        ref_id  == class_column_value(cls, fk)
    IN  IF ref_id = None THEN [st |-> st, ret |-> 0]
        ELSE IF "_as_list" \notin ColumnAttrs
        THEN [st |-> [st EXCEPT !.err = "AttributeError"], ret |-> 0]
        ELSE LET hit == known_lookup(st, ref_cls, ref_id, 1)
             IN  IF hit # 0 THEN [st |-> st, ret |-> hit]
                 ELSE select_first(st, ref_cls, "id", ref_id, found, d)

\* AsyncRelationship._get_children_from_session
get_children_from_session(st, o, found, d) ==
    IF "pk_column" \notin ColumnAttrs
    THEN [st |-> [st EXCEPT !.err = "AttributeError"], ret |-> 0]
    ELSE LET ref_id == st.objs[o].val["id"]
         IN  IF ref_id = None THEN [st |-> st, ret |-> 0]
             ELSE IF "_as_list" \notin ColumnAttrs
             THEN [st |-> [st EXCEPT !.err = "AttributeError"], ret |-> 0]
             ELSE select_first(st, ref_table_cls(st.objs[o].cls), "p_id", ref_id, found, d)

\* AsyncRelationship._get_from_session
async_get_from_session(st, o, found, d) ==
    LET cls == st.objs[o].cls
        fk  == fk_column(cls, ref_table_cls(cls))
    IN  IF fk # NoValue THEN get_parent_from_session(st, o, fk, found, d)
        ELSE IF "ref_fk_column" \notin ColumnAttrs
        THEN [st |-> [st EXCEPT !.err = "AttributeError"], ret |-> 0]
        ELSE get_children_from_session(st, o, found, d)

\* Relationship.get_value / AsyncRelationship.get_value: what reading the
\* relationship attribute of object o gives
relationship_get_value(st, o, kind, found, d) ==
    IF kind = "sync" THEN get_from_session(st, o, found, d)
    ELSE IF "_value" \notin ColumnAttrs
    THEN [st |-> [st EXCEPT !.err = "AttributeError"], ret |-> 0]
    ELSE async_get_from_session(st, o, found, d)

\* p = P(id=...) or c = C(id=..., p_id=...)
RelNew ==
    /\ nops < MaxOps
    /\ Len(objs) < NObj
    /\ \E cls \in RelClasses : \E kw \in [ColSet(cls) -> Vals] :
          /\ Commit([SessionState EXCEPT !.objs = Append(@, Construct(cls, kw))],
                    "new", Len(objs) + 1, NoStatement)
          /\ assigned' = Append(assigned, {c \in ColSet(cls) : kw[c] # None})

\* session.add(obj)
RelAdd ==
    /\ nops < MaxOps
    /\ \E o \in DOMAIN objs : \E d \in RealVals :
          Commit(add(SessionState, o, d), "add", o, NoStatement)
    /\ UNCHANGED assigned

\* reading a relationship attribute: c.p (to-one) or p.cs (to-many)
Resolve(cls, name) ==
    /\ nops < MaxOps
    /\ \E o \in DOMAIN objs : \E found \in BOOLEAN : \E d \in RealVals :
          /\ objs[o].cls = cls
          /\ LET r == relationship_get_value([SessionState EXCEPT !.log = <<>>], o, session_kind, found, d)
             IN  /\ objs' = r.st.objs
                 /\ known_objects' = r.st.known
                 /\ created_objects' = r.st.created
                 /\ deleted_objects' = r.st.deleted
                 /\ connection_closed' = (r.st.connection # "open")
                 /\ log' = r.st.log
                 /\ err' = r.st.err
                 /\ result' = r.ret
                 /\ assigned' = IF Len(r.st.objs) > Len(objs)
                                THEN Append(assigned, {}) ELSE assigned
          /\ call' = [name |-> name, obj |-> o]
          /\ last_op' = [name |-> name, obj |-> o, tracked |-> FALSE]
    /\ stmt' = NoStatement
    /\ nops' = nops + 1
    /\ UNCHANGED <<session_kind, life_vars, reg_vars>>

ResolveParent == Resolve("C", "resolve_parent")

ResolveChildren == Resolve("P", "resolve_children")

\* Relationship.set_value / AsyncRelationship.set_value on the relationship
\* of object o, handed object t: ref_id is read from ref_cls.primary_columns()
\* and written to self.fk_column, both columns of the classes and not of o
\* or t; ret is what get_value gave
relationship_set_value(st, o, t, kind, found, d) ==
    LET r       == relationship_get_value(st, o, kind, found, d)
        cls     == st.objs[o].cls
        ref_cls == ref_table_cls(cls)
        ref_id  == class_column_value(ref_cls, "id")
        column  == fk_column(cls, ref_cls)
    IN  IF r.st.err # "ok" \/ r.ret = t THEN r
        ELSE IF column # NoValue /\ ref_id # class_column_value(cls, column)
        THEN [st |-> [r.st EXCEPT !.objs[o].val[column] = ref_id,
                                  !.objs[o].changed[column] = TRUE],
              ret |-> r.ret]
        ELSE r

\* c.p = p or p.cs = c: an entity of the referenced class is assigned to the
\* relationship attribute
AssignRelationship ==
    /\ nops < MaxOps
    /\ \E o \in DOMAIN objs : \E t \in DOMAIN objs :
       \E found \in BOOLEAN : \E d \in RealVals :
          /\ objs[t].cls = ref_table_cls(objs[o].cls)
          /\ LET r == relationship_set_value([SessionState EXCEPT !.log = <<>>], o, t,
                                             session_kind, found, d)
             IN  /\ objs' = r.st.objs
                 /\ known_objects' = r.st.known
                 /\ created_objects' = r.st.created
                 /\ deleted_objects' = r.st.deleted
                 /\ connection_closed' = (r.st.connection # "open")
                 /\ log' = r.st.log
                 /\ err' = r.st.err
                 /\ result' = r.ret
                 /\ assigned' = IF Len(r.st.objs) > Len(objs)
                                THEN Append(assigned, {}) ELSE assigned
          /\ call' = [name |-> "assign", obj |-> o, target |-> t]
          /\ last_op' = [name |-> "assign", obj |-> o, tracked |-> FALSE]
    /\ stmt' = NoStatement
    /\ nops' = nops + 1
    /\ UNCHANGED <<session_kind, life_vars, reg_vars>>

ResolveUnlinked == Resolve("L", "resolve_unlinked")

RelNext ==
    RelNew \/ RelAdd \/ ResolveParent \/ ResolveChildren \/ ResolveUnlinked
       \/ AssignRelationship

RelSpec == Init /\ [][RelNext]_vars

(* ---------------------------------------------------------------------- *)
(* build_insert on its own: entities of every type, with and without       *)
(* Relationship attributes, are constructed and their INSERT is built      *)
(* ---------------------------------------------------------------------- *)
\* obj.build_insert(session=session): the Insert query it returns, with its
\* columns(...) and values(...); the defaults it resolved stay in the object
BuildInsert ==
    /\ \E o \in DOMAIN objs : \E d \in RealVals :
          /\ objs' = [objs EXCEPT ![o] = build_insert(objs[o], o, "none", d)[1]]
          /\ call' = [name |-> "build_insert", obj |-> o, d |-> d, before |-> objs[o]]
          /\ result' = [columns |-> build_insert(objs[o], o, "none", d)[2].set,
                        values |-> insert_column_values(objs[o], d)]
    /\ UNCHANGED <<known_objects, created_objects, deleted_objects, connection_closed,
                   session_kind, log, err, last_op, stmt, assigned, nops, life_vars,
                   reg_vars>>

InsertNext == New \/ RelNew \/ BuildInsert

InsertSpec == Init /\ [][InsertNext]_vars

(* ---------------------------------------------------------------------- *)
(* The model registry                                                      *)
(* ---------------------------------------------------------------------- *)
\* __table_name__ values under which classes are registered
TableNames == {"a", "t"}

Registry == [models |-> models, initialized |-> initialized, err |-> "ok"]

\* Registry._initialize_model: the class is marked initialized
initialize_model(reg, model) == [reg EXCEPT !.initialized = @ \cup {model}]

\* register_model() that rebinds a name already bound to another class
register_model_last_wins(reg, model_name, model) ==
    IF DictHas(reg.models, model_name) /\ DictGet(reg.models, model_name) = model
    THEN reg
    ELSE LET reg1 == IF model \notin reg.initialized
                     THEN initialize_model(reg, model)
                     ELSE reg
         IN  [reg1 EXCEPT !.models = DictSet(@, model_name, model)]

\* Registry.register_model
register_model(reg, model_name, model) ==
    IF DictHas(reg.models, model_name)
    THEN IF DictGet(reg.models, model_name) # model
         THEN [reg EXCEPT !.err = "ValueError"]
         ELSE reg
    ELSE LET reg1 == IF model \notin reg.initialized
                     THEN initialize_model(reg, model)
                     ELSE reg
         IN  [reg1 EXCEPT !.models = DictSet(@, model_name, model)]

\* an empty registry, no class initialized yet
RegInit ==
    /\ objs = <<>>
    /\ known_objects = <<>>
    /\ created_objects = <<>>
    /\ deleted_objects = <<>>
    /\ connection_closed = TRUE
    /\ session_kind = "sync"
    /\ log = <<>>
    /\ err = "ok"
    /\ last_op = [name |-> "init", obj |-> 0, tracked |-> FALSE]
    /\ stmt = NoStatement
    /\ assigned = <<>>
    /\ nops = 0
    /\ LifeIdle
    /\ RegIdle
    /\ call = NoCall
    /\ result = 0

\* registry.register_model(model_name=..., model=...)
RegisterModel ==
    /\ nops < MaxRegs
    /\ \E model_name \in TableNames : \E model \in Classes :
          LET reg == register_model(Registry, model_name, model)
          IN  /\ models' = reg.models
              /\ initialized' = reg.initialized
              /\ err' = reg.err
              /\ call' = [name |-> "register_model", model_name |-> model_name,
                          model |-> model,
                          bound |-> DictHas(models, model_name)]
    /\ nops' = nops + 1
    /\ UNCHANGED <<objs, known_objects, created_objects, deleted_objects,
                   connection_closed, session_kind, log, last_op, stmt, assigned,
                   life_vars, result>>

RegNext == RegisterModel

RegSpec == RegInit /\ [][RegNext]_vars

(* ---------------------------------------------------------------------- *)
(* Properties                                                              *)
(* ---------------------------------------------------------------------- *)
PrimaryCols(ob) == {c \in ColSet(ob.cls) : primary_key(ob.cls, c)}

\* every primary-key column holds a value (and there is one)
HasIdentity(ob) ==
    /\ PrimaryCols(ob) # {}
    /\ \A c \in PrimaryCols(ob) : ob.val[c] # None

\* some primary-key column holds no value
KeyIncomplete(ob) == \E c \in PrimaryCols(ob) : ob.val[c] = None

\* built by build_from_db: the only place apply_defaults is switched off
Hydrated(ob) == ob.exists_in_db /\ ~ob.apply_defaults

Range(seq) == {seq[i] : i \in DOMAIN seq}

KnownAt(k) == {i \in DOMAIN known_objects : known_objects[i].key = k}

\* C1: after add(obj) of an object whose primary-key columns are all set,
\* known_objects holds exactly one entry under obj's identity string and
\* that entry is obj, the last instance added under it; no identity string
\* ever has two entries.
C1_IdentityUnique ==
    /\ \A i, j \in DOMAIN known_objects :
          known_objects[i].key = known_objects[j].key => i = j
    /\ (last_op.name = "add" /\ HasIdentity(objs[last_op.obj])) =>
          /\ Cardinality(KnownAt(primary_str(objs[last_op.obj]))) = 1
          /\ DictGet(known_objects, primary_str(objs[last_op.obj])) = last_op.obj

\* an add() of an instance while another instance carries the same identity
C1_Witness ==
    /\ last_op.name = "add"
    /\ HasIdentity(objs[last_op.obj])
    /\ \E o2 \in DOMAIN objs :
          /\ o2 # last_op.obj
          /\ HasIdentity(objs[o2])
          /\ objs[o2].cls = objs[last_op.obj].cls
          /\ primary_str(objs[o2]) = primary_str(objs[last_op.obj])
    /\ DictGet(known_objects, primary_str(objs[last_op.obj])) = last_op.obj

\* C2: when a query returns a row whose identity is already held in
\* known_objects, the result is the instance already tracked and the
\* identity-map entry still refers to that instance afterwards.
C2_HydrationReusesInstance ==
    [][ (/\ last_op'.name = "select"
         /\ nops' = nops + 1
         /\ DictHas(known_objects, primary_str(objs'[last_op'.obj])))
        => LET k == primary_str(objs'[last_op'.obj])
           IN  /\ last_op'.obj = DictGet(known_objects, k)
               /\ DictGet(known_objects', k) = DictGet(known_objects, k) ]_vars

\* C3: for an entity with a composite primary key of which a column holds
\* no value, build_update returns no statement, and flush executes no
\* UPDATE for such an object.
C3_NoUpdateOnIncompleteKey ==
    /\ (/\ last_op.name = "build_update"
        /\ Cardinality(PrimaryCols(objs[last_op.obj])) > 1
        /\ KeyIncomplete(objs[last_op.obj]))
       => stmt = NoStatement
    /\ last_op.name = "flush" =>
          \A i \in DOMAIN log :
             (log[i].kind = "UPDATE" /\ Cardinality(PrimaryCols(objs[log[i].obj])) > 1)
                => ~KeyIncomplete(objs[log[i].obj])

\* C4: for an entity hydrated from a stored row on which exactly one column
\* was then assigned a different value, the SET list of the UPDATE built by
\* build_update holds exactly that column plus every column with an
\* on_update producer, each once.
C4_DirtyTrackingMinimal ==
    \A c \in {"id", "k1", "k2", "label", "upd"} :
       (/\ last_op.name = "build_update"
        /\ Hydrated(objs[last_op.obj])
        /\ assigned[last_op.obj] = {c})
       => /\ stmt.kind = "UPDATE"
          /\ Range(stmt.set) =
                {c} \cup {u \in ColSet(objs[last_op.obj].cls) :
                             has_on_update(objs[last_op.obj].cls, u)}
          /\ Len(stmt.set) = Cardinality(Range(stmt.set))

\* a hydrated T with only label reassigned: SET is label, then upd
C4_Witness ==
    /\ last_op.name = "build_update"
    /\ Hydrated(objs[last_op.obj])
    /\ objs[last_op.obj].cls = "T"
    /\ assigned[last_op.obj] = {"label"}
    /\ stmt.set = <<"label", "upd">>

\* C5: after a flush that returned without error, every column of every
\* instance the flush wrote (inserted or updated) has changed = FALSE.
C5_FlushClearsDirtyFlags ==
    (last_op.name = "flush" /\ err = "ok") =>
       \A i \in DOMAIN log :
          log[i].kind \in {"INSERT", "UPDATE"} =>
             \A c \in ColSet(objs[log[i].obj].cls) : ~objs[log[i].obj].changed[c]

AddStep(o) == last_op'.name = "add" /\ last_op'.obj = o /\ nops' = nops + 1

DeleteStep(o) == last_op'.name = "delete" /\ last_op'.obj = o /\ nops' = nops + 1

KnownObjs(d) == {d[i].obj : i \in DOMAIN d}

\* C6: add(obj) stores an object whose primary-key columns all hold a value
\* (once defaults are materialized) in known_objects under its identity
\* string and leaves created_objects unchanged; an object with a
\* primary-key column still unset is appended to created_objects and
\* known_objects is unchanged.
C6_AddRouting ==
    [][ \A o \in DOMAIN objs : AddStep(o) =>
          /\ HasIdentity(objs'[o]) =>
                /\ DictHas(known_objects', primary_str(objs'[o]))
                /\ DictGet(known_objects', primary_str(objs'[o])) = o
                /\ created_objects' = created_objects
          /\ KeyIncomplete(objs'[o]) =>
                /\ created_objects' = Append(created_objects, o)
                /\ known_objects' = known_objects ]_vars

\* C7: delete(obj) of an object that is in known_objects or created_objects
\* removes it from them and records no deferred delete; only an object in
\* neither is recorded in deleted_objects under its identity; entries for
\* other objects are unchanged in all three collections.
C7_DeleteRecordsOnlyUntracked ==
    [][ \A o \in DOMAIN objs : DeleteStep(o) =>
          LET k == primary_str(objs[o])
              tracked == o \in KnownObjs(known_objects) \/ ListHas(created_objects, o)
          IN  /\ tracked =>
                    /\ o \notin KnownObjs(known_objects')
                    /\ ~ListHas(created_objects', o)
                    /\ deleted_objects' = deleted_objects
              /\ ~tracked =>
                    /\ DictHas(deleted_objects', k)
                    /\ DictGet(deleted_objects', k) = o
              /\ SelectSeq(known_objects', LAMBDA e : e.obj # o)
                    = SelectSeq(known_objects, LAMBDA e : e.obj # o)
              /\ SelectSeq(created_objects', LAMBDA x : x # o)
                    = SelectSeq(created_objects, LAMBDA x : x # o)
              /\ SelectSeq(deleted_objects', LAMBDA e : e.obj # o)
                    = SelectSeq(deleted_objects, LAMBDA e : e.obj # o) ]_vars

\* C7 as amended: delete(obj) removes the known_objects entry stored under
\* obj's identity string and the first occurrence of obj in
\* created_objects, and records obj in deleted_objects under its identity
\* string unless that identity string is already recorded there; every
\* other entry is unchanged.
C7_DeleteAlwaysRecords ==
    [][ \A o \in DOMAIN objs : DeleteStep(o) =>
          LET k == primary_str(objs[o])
          IN  /\ known_objects' = SelectSeq(known_objects, LAMBDA e : e.key # k)
              /\ \/ /\ ~ListHas(created_objects, o)
                    /\ created_objects' = created_objects
                 \/ \E i \in DOMAIN created_objects :
                       /\ created_objects[i] = o
                       /\ \A m \in 1..(i - 1) : created_objects[m] # o
                       /\ created_objects' = SubSeq(created_objects, 1, i - 1)
                                             \o SubSeq(created_objects, i + 1, Len(created_objects))
              /\ IF DictHas(deleted_objects, k)
                 THEN deleted_objects' = deleted_objects
                 ELSE deleted_objects' = Append(deleted_objects, [key |-> k, obj |-> o])
              /\ objs' = objs ]_vars

\* a delete() of an object the session was tracking, now scheduled for deletion
C7_Witness ==
    /\ last_op.name = "delete"
    /\ last_op.tracked
    /\ last_op.obj \notin KnownObjs(known_objects)
    /\ ~ListHas(created_objects, last_op.obj)
    /\ DictHas(deleted_objects, primary_str(objs[last_op.obj]))
    /\ DictGet(deleted_objects, primary_str(objs[last_op.obj])) = last_op.obj

\* C8: a flush() of the blocking session with objects recorded in
\* deleted_objects completes without error and has executed, for each of
\* them, a DELETE statement with a WHERE predicate on that object's
\* primary key.
C8_FlushExecutesDeletes ==
    (/\ last_op.name = "flush"
     /\ session_kind = "sync"
     /\ \E i \in DOMAIN deleted_objects : deleted_objects[i].obj # ClassRef)
    => /\ err = "ok"
       /\ \A i \in DOMAIN deleted_objects :
             deleted_objects[i].obj # ClassRef =>
                \E j \in DOMAIN log :
                   /\ log[j].kind = "DELETE"
                   /\ log[j].obj = deleted_objects[i].obj
                   /\ log[j].where = get_update_primary_keys(objs[deleted_objects[i].obj])

PhaseRank(p) == CASE p = "known" -> 1 [] p = "deleted" -> 2 [] p = "created" -> 3

C10_InsertGivesIdentity ==
    (last_op.name = "flush" /\ err = "ok") =>
       \A i \in DOMAIN log :
          (log[i].kind = "INSERT" /\ "id" \in PrimaryCols(objs[log[i].obj])) =>
             LET o == log[i].obj
             IN  /\ objs[o].exists_in_db
                 /\ HasIdentity(objs[o])
                 /\ DictHas(known_objects, primary_str(objs[o]))
                 /\ DictGet(known_objects, primary_str(objs[o])) = o

\* the statements of the last call that reached the driver with the given kind
LogOf(kind) == {i \in DOMAIN log : log[i].kind = kind}

\* C11: rollback() calls the driver's rollback, executes no statement for
\* any pending object, and leaves known_objects, created_objects and
\* deleted_objects of the session empty.
C11_RollbackClears ==
    call.name = "rollback" =>
       /\ err = "ok"
       /\ log = <<DriverCall("ROLLBACK")>>
       /\ sessions[call.session].known = <<>>
       /\ sessions[call.session].created = <<>>
       /\ sessions[call.session].deleted = <<>>

\* a rollback() of a session that held pending objects on an open connection
C11_Witness ==
    /\ call.name = "rollback"
    /\ call.pending > 0
    /\ call.was_open
    /\ log = <<DriverCall("ROLLBACK")>>
    /\ sessions[call.session].known = <<>>

\* C12: commit() calls the driver's commit once, after every statement of
\* its flush(); when the flush raises, the driver's commit is not called.
C12_CommitAfterFlush ==
    call.name = "commit" =>
       IF err = "ok"
       THEN /\ Len(log) > 0
            /\ LogOf("COMMIT") = {Len(log)}
            /\ \A i \in 1..(Len(log) - 1) : log[i].kind \in {"INSERT", "UPDATE", "DELETE"}
       ELSE LogOf("COMMIT") = {}

\* a commit() whose flush wrote an object before the driver's commit
C12_Witness ==
    /\ call.name = "commit"
    /\ err = "ok"
    /\ Len(log) >= 2
    /\ log[1].kind = "INSERT"
    /\ log[Len(log)].kind = "COMMIT"

NewStep == call'.name = "new" /\ nops' = nops + 1

\* C13: DatabaseSession() without credentials before configure() raises
\* RuntimeError and neither creates nor publishes a session; with explicit
\* credentials the construction succeeds although configure() was never
\* called.
C13_ConfigureFirst ==
    [][ (NewStep /\ ~configured) =>
          IF call'.explicit
          THEN /\ err' = "ok"
               /\ Len(handles') = Len(handles) + 1
               /\ call'.session \in DOMAIN sessions'
          ELSE /\ err' = "RuntimeError"
               /\ sessions' = sessions
               /\ local_sessions' = local_sessions
               /\ handles' = handles ]_vars

\* a refused construction after one with explicit credentials went through,
\* configure() never called
C13_Witness ==
    /\ call.name = "new"
    /\ ~configured
    /\ ~call.explicit
    /\ err = "RuntimeError"
    /\ Len(handles) = 1
    /\ Len(sessions) = 1

\* C14: within one thread two constructions return the same session object
\* exactly when both are non-isolated and their credentials give the same
\* host/port/database key.
C14_SessionAffinity ==
    \A i, j \in DOMAIN handles :
       (i < j /\ handles[i].thread = handles[j].thread) =>
          ((handles[i].session = handles[j].session)
             <=> (/\ ~handles[i].isolate
                  /\ ~handles[j].isolate
                  /\ handles[i].key = handles[j].key))

\* one thread holding a shared session twice, an isolated session for the
\* same target and a session for another target
C14_Witness ==
    \E i, j, k \in DOMAIN handles :
       /\ i < j /\ j < k
       /\ handles[i].thread = handles[j].thread
       /\ handles[j].thread = handles[k].thread
       /\ handles[i].session = handles[j].session
       /\ ~handles[i].isolate /\ ~handles[j].isolate
       /\ handles[k].session # handles[i].session
       /\ ~handles[k].isolate
       /\ handles[k].key # handles[i].key

\* session.connection_closed
ConnectionClosed(sess) == sess.connection # "open"

\* C15: after close() through one handle of a session whose connection was
\* established, connection_closed is true through every handle of that
\* session, and outstanding work was flushed and committed before the
\* connection was closed.
C15_CloseClosesAll ==
    (call.name = "close" /\ call.was_open) =>
       /\ \A h \in DOMAIN handles :
             handles[h].session = call.session => ConnectionClosed(sessions[handles[h].session])
       /\ call.pending > 0 =>
             \E i, j, k \in DOMAIN log :
                /\ i < j /\ j < k
                /\ log[i].kind \in {"INSERT", "UPDATE", "DELETE"}
                /\ log[j].kind = "COMMIT"
                /\ log[k].kind = "CLOSE"

\* C16: the auto_commit passed when the thread's session is obtained, or
\* assigned through a handle, is the value seen through every handle of
\* that session, and an open connection's autocommit setting equals the
\* session's auto_commit.
C16_AutoCommitShared ==
    /\ (call.name \in {"new", "set_auto_commit"} /\ err = "ok") =>
          \A h \in DOMAIN handles :
             handles[h].session = call.session =>
                sessions[handles[h].session].auto_commit = call.auto_commit
    /\ \A s \in DOMAIN sessions :
          sessions[s].connection = "open" => sessions[s].autocommit = sessions[s].auto_commit

\* the thread's session obtained again with the other auto_commit value
\* while its connection is open
C16_Witness ==
    /\ call.name = "new"
    /\ call.changed
    /\ sessions[call.session].connection = "open"
    /\ sessions[call.session].autocommit = call.auto_commit
    /\ Cardinality({h \in DOMAIN handles : handles[h].session = call.session}) >= 2

\* C17: registering a class under a table name bound to a different class
\* raises ValueError and leaves the registry as it was; registering the
\* class already bound to the name changes nothing and raises nothing; a
\* name once bound keeps its class, in any order of registrations.
C17_RegistryWriteOnce ==
    [][ (call'.name = "register_model" /\ nops' = nops + 1) =>
          /\ (\A i \in DOMAIN models : models'[i] = models[i])
          /\ DictHas(models, call'.model_name) =>
                /\ models' = models
                /\ initialized' = initialized
                /\ err' = IF DictGet(models, call'.model_name) = call'.model
                          THEN "ok" ELSE "ValueError"
          /\ ~DictHas(models, call'.model_name) =>
                /\ err' = "ok"
                /\ DictGet(models', call'.model_name) = call'.model ]_vars

\* a conflicting registration was refused with both names bound
C17_Witness ==
    /\ call.name = "register_model"
    /\ call.bound
    /\ err = "ValueError"
    /\ Len(models) = 2
    /\ DictGet(models, call.model_name) # call.model

\* the P instances in known_objects whose primary key is the value of c's
\* foreign-key column
ParentsOf(c) ==
    {known_objects[i].obj : i \in
       {j \in DOMAIN known_objects :
          /\ objs[known_objects[j].obj].cls = "P"
          /\ objs[c].val["p_id"] # None
          /\ objs[known_objects[j].obj].val["id"] = objs[c].val["p_id"]}}

\* C18: when a P is in known_objects and a C instance has its foreign key
\* set to that P's primary key, reading the C's relationship returns that
\* very P and no statement reaches the driver.
C18_IdentityMapShortcut ==
    (call.name = "resolve_parent" /\ ParentsOf(call.obj) # {}) =>
       /\ err = "ok"
       /\ result \in ParentsOf(call.obj)
       /\ log = <<>>

\* C19: reading a to-many relationship executes a query against the
\* driver, whatever known_objects holds.
C19_ChildrenAlwaysQuery ==
    call.name = "resolve_children" =>
       /\ err = "ok"
       /\ \E i \in DOMAIN log : log[i].kind = "SELECT"

\* the relationship identity-map lookup for o's own class and primary-key
\* value finds o
Visible(o) ==
    /\ HasIdentity(objs[o])
    /\ known_lookup(SessionState, objs[o].cls,
                    objs[o].val[inst_primary_columns(objs[o].cls)[1]], 1) = o

\* the step hands o to add()
Adds(o) == last_op'.name = "add" /\ last_op'.obj = o

\* the step deletes o's identity, or adds another instance under it
Replaces(o) ==
    /\ last_op'.name \in {"add", "delete"}
    /\ last_op'.obj \in DOMAIN objs
    /\ last_op'.obj # o \/ last_op'.name = "delete"
    /\ primary_str(objs'[last_op'.obj]) = primary_str(objs[o])

\* C20: an object with a resolvable identity that was added to the session
\* is found by the relationship identity-map lookup from then on, across
\* flushes and queries, until its identity is deleted or another instance
\* is added under it.
C20_AddedStaysVisible ==
    [][ \A o \in DOMAIN objs :
          (/\ Visible(o) \/ Adds(o)
           /\ HasIdentity(objs'[o])
           /\ ~Replaces(o))
          => Visible(o)' ]_vars

\* C21: a session object is held by one execution context only: two handles
\* on the same session were obtained by the same cooperative task of the
\* same thread.
C21_OneSessionPerContext ==
    \A i, j \in DOMAIN handles :
       handles[i].session = handles[j].session =>
          /\ handles[i].thread = handles[j].thread
          /\ handles[i].task = handles[j].task

\* the values handed to the operators of a list of clauses, in order
RECURSIVE RightSides(_, _)
RightSides(clauses, i) ==
    IF i > Len(clauses) THEN <<>>
    ELSE <<clauses[i].operator.right>>
         \o (IF clauses[i].operator.op = "BETWEEN"
             THEN <<clauses[i].operator.right2>> ELSE <<>>)
         \o RightSides(clauses[i].or_, 1)
         \o RightSides(clauses[i].and_, 1)
         \o RightSides(clauses, i + 1)

\* the values a statement hands to the renderer: SET values of an update,
\* then the operands of its WHERE clauses (raw SQL entries hand over none)
RenderedValues(query) ==
    (IF query.kind = "update" THEN [i \in DOMAIN query.set |-> query.set[i].obj] ELSE <<>>)
    \o RightSides(SelectSeq(query.where, LAMBDA part : part.kind = "QueryClause"), 1)

\* the values of a statement's clauses, raw SQL entries included
ClauseValues(query) ==
    (IF query.kind = "update" THEN [i \in DOMAIN query.set |-> query.set[i].obj] ELSE <<>>)
    \o RightSides(query.where, 1)

CountKinds(values, kinds) == Cardinality({i \in DOMAIN values : values[i].kind \in kinds})

Rendered == call.name = "parse" /\ err = "ok"

\* rendering added n parameters under new names and kept the old ones
AddsFresh(n) ==
    /\ Len(result.params) = Len(result.before) + n
    /\ \A i \in DOMAIN result.before : result.params[i] = result.before[i]
    /\ \A i, j \in DOMAIN result.params :
          i # j => result.params[i].key # result.params[j].key

AddedNames == {result.params[i].key : i \in (Len(result.before) + 1)..Len(result.params)}

\* C23: every literal value of a WHERE or SET clause is represented in the
\* rendered text by a placeholder, and no value is written into the text.
C23_LiteralsParameterized ==
    Rendered =>
       /\ \A i \in DOMAIN result.text : result.text[i].t # "Literal"
       /\ Cardinality({i \in DOMAIN result.text :
                          /\ result.text[i].t = "Placeholder"
                          /\ result.text[i].s = "param"
                          /\ result.text[i].n \in AddedNames})
             = CountKinds(ClauseValues(call), {"literal"})


\* C24: for every scalar column type and every native value v of it, None
\* included, parse_from_db of what parse_to_db(v) gives succeeds and leaves
\* the column type holding a value equal to v.
C24_WireRoundTrip ==
    call.name = "parse_from_db" => err = "ok" /\ call.loaded = call.value

\* the row an executed insert proposed
ProposedRow(entry) == [k |-> entry.query.values[1].v, m |-> entry.query.values[2].v]

\* an executed insert that was configured with on_conflict_do_nothing(c)
DoNothingOn(entry, c) ==
    /\ entry.query.on_conflict_do_nothing
    /\ entry.query.on_conflict_of_constraint = c

\* two inserts were executed on the empty table, both with
\* on_conflict_do_nothing(c), and their rows collide under constraint c
TwoConflictingInserts(c) ==
    /\ Len(log) = 2
    /\ DoNothingOn(log[1], c)
    /\ DoNothingOn(log[2], c)
    /\ ProposedRow(log[1])[constraint_column(c)] = ProposedRow(log[2])[constraint_column(c)]

\* C25: two executed inserts whose rows violate the same named unique
\* constraint, each with on_conflict_do_nothing for that constraint, raise
\* no error and leave exactly one row in the table.
C25_ConflictDoNothing ==
    \A c \in Constraints :
       TwoConflictingInserts(c) => err = "ok" /\ Cardinality(result.rows) = 1

\* the second insert differs from the stored row outside the constraint
C25_Witness ==
    /\ TwoConflictingInserts("uq_k")
    /\ ProposedRow(log[1]).m # ProposedRow(log[2]).m
    /\ log[2].text[Len(log[2].text)] = SQL("DO NOTHING")
    /\ result.rows = {ProposedRow(log[1])}

\* an entity was assigned to the to-one relationship of a child and is not
\* what the relationship resolved to
AssignedOther ==
    /\ call.name = "assign"
    /\ err = "ok"
    /\ objs[call.obj].cls = "C"
    /\ call.target # result

\* C26: assigning a target entity that differs from the resolved value sets
\* the instance's own foreign-key column to the target's primary-key value,
\* marks it dirty, and executes no statement.
C26_AssignSetsForeignKey ==
    AssignedOther =>
       /\ objs[call.obj].val["p_id"] = objs[call.target].val["id"]
       /\ objs[call.obj].changed["p_id"]
       /\ log = <<>>

Reads == {"resolve_parent", "resolve_children", "resolve_unlinked"}

\* a relationship of an entity is read right after it was read
ReadAgain ==
    /\ call.name \in Reads
    /\ call'.name \in Reads
    /\ call'.obj = call.obj

\* C27: a relationship is resolved once per entity instance: a later read
\* returns what the first read returned and executes no further query.
C27_ResolutionCached ==
    [][ReadAgain => (err' = "ok" /\ result' = result /\ log' = <<>>)]_vars

\* C28: resolving a relationship with no foreign key on the owner and none
\* back fails with an error, it never resolves silently to none.
C28_UnlinkedFails ==
    call.name = "resolve_unlinked" => err # "ok"

\* what an on_update producer returns when it is called for this statement:
\* a value no column holds yet
FreshValue == MaxVal + 1

\* C29: in every UPDATE built by build_update, a column with an on_update
\* producer is assigned the fresh producer value, dirty or not.
C29_OnUpdateAlwaysFresh ==
    (last_op.name = "build_update" /\ stmt.kind = "UPDATE") =>
       \A c \in ColSet(objs[stmt.obj].cls) :
          has_on_update(objs[stmt.obj].cls, c) =>
             /\ DictHas(update_values(objs[stmt.obj], FreshValue), c)
             /\ DictGet(update_values(objs[stmt.obj], FreshValue), c) = FreshValue

\* C30: set_value(v) with v equal to the held value, read without applying
\* defaults, changes neither the value nor the explicit-set flag nor the
\* dirty flag; with a different v it stores v and sets both flags.
C30_SetValueFrame ==
    call.name = "set_value" =>
       IF call.value = call.before.value
       THEN call.column = call.before
       ELSE call.column = [call.before EXCEPT !.value = call.value,
                                               !.value_set = TRUE, !.changed = TRUE]

\* a value loaded from the database is assigned again: nothing changes
C30_Witness ==
    /\ call.name = "set_value"
    /\ call.value # None
    /\ call.value = call.before.value
    /\ ~call.column.changed
    /\ ~call.column.value_set

\* the value column c of ob goes out with once its default producer, which
\* gives d, has filled an unset value
ResolvedValue(ob, c, d) ==
    IF ob.val[c] = None /\ has_default(ob.cls, c) THEN d ELSE ob.val[c]

\* the positions of column c in the column list of the built INSERT
ListedAt(c) == {i \in DOMAIN result.columns : result.columns[i] = c}

\* C31: the INSERT built for an entity instance lists every column of the
\* instance that is neither a Relationship nor auto-increment exactly once,
\* paired position by position with the column's value after its default was
\* resolved, and lists no other column
C31_InsertListsWritableColumns ==
    call.name = "build_insert" =>
       /\ Len(result.columns) = Len(result.values)
       /\ \A i \in DOMAIN instance_columns(call.before.cls) :
             LET c == instance_columns(call.before.cls)[i]
             IN  IF is_relationship(call.before.cls, c) \/ auto_increment(call.before.cls, c)
                 THEN ListedAt(c) = {}
                 ELSE /\ Cardinality(ListedAt(c)) = 1
                      /\ \A j \in ListedAt(c) :
                            result.values[j] = ResolvedValue(call.before, c, call.d)
       /\ \A j \in DOMAIN result.columns :
             \E i \in DOMAIN instance_columns(call.before.cls) :
                instance_columns(call.before.cls)[i] = result.columns[j]

\* an INSERT was built for an entity whose key was unset and has a default
C31_Witness ==
    /\ call.name = "build_insert"
    /\ call.before.cls = "T"
    /\ call.before.val["id"] = None
    /\ result.columns = <<"id", "label", "upd">>
    /\ result.values[1] = call.d

\* an INSERT was built for an entity that has a Relationship attribute
C31_Witness_Relationship ==
    /\ call.name = "build_insert"
    /\ call.before.cls = "C"
    /\ result.columns = <<"id", "p_id">>

\* the text _parse_returning gives for the targets of the executed statement
RenderedTargets == returning_args([text |-> <<>>, params |-> <<>>, err |-> "ok"],
                                  call.returning, 1).text

\* C32: a write statement (INSERT, UPDATE or DELETE) on which returning(...)
\* targets were set renders a RETURNING clause naming those targets, and its
\* rows hydrate by those targets
C32_ReturningRendered ==
    (call.name = "execute" /\ call.returning # <<>>) =>
       /\ \E i \in DOMAIN result.text :
             /\ result.text[i] = SQL("RETURNING")
             /\ SubSeq(result.text, i + 1, Len(result.text)) = RenderedTargets
       /\ result.return_types = call.returning

\* p and o are one identity: the same entity type and equal, set values in
\* every primary-key column
SameIdentity(p, o) ==
    /\ p.cls = o.cls
    /\ \A c \in ColSet(o.cls) :
          primary_key(o.cls, c) => (p.val[c] = o.val[c] /\ o.val[c] # None)

\* C33: identity keys do not collide: add() files an instance under a
\* known_objects key that holds another instance only if the two are of the
\* same entity type and have equal values in every primary-key column;
\* instances of different types, and instances whose key is unset, never
\* overwrite one another's identity-map entry
C33_IdentityKeysDistinct ==
    [][(last_op'.name = "add" /\ nops' = nops + 1 /\ ~connection_closed) =>
          \A i \in DOMAIN known_objects :
             (/\ known_objects[i].key = primary_str(objs'[last_op'.obj])
              /\ known_objects[i].obj # last_op'.obj)
             => SameIdentity(objs'[known_objects[i].obj], objs'[last_op'.obj])]_vars

\* the WHERE list of statement s constrains column c to the value v
Constrains(s, c, v) == \E j \in DOMAIN s.where : s.where[j] = <<c, v>>

\* C34: every UPDATE that flush() executes carries a WHERE predicate that
\* constrains every primary-key column of the flushed object to the object's
\* non-null key value, so it cannot match the rows of other objects; this
\* includes entities with no primary-key column or with an unset key
C34_UpdateKeyedByPrimaryKey ==
    last_op.name = "flush" =>
       \A i \in DOMAIN log :
          log[i].kind = "UPDATE" =>
             /\ log[i].where # <<>>
             /\ \A c \in ColSet(objs[log[i].obj].cls) :
                   primary_key(objs[log[i].obj].cls, c) =>
                      /\ objs[log[i].obj].val[c] # None
                      /\ Constrains(log[i], c, objs[log[i].obj].val[c])

\* the INSERT, UPDATE and DELETE statements among those a handler executed
Writes(l) == SelectSeq(l, LAMBDA s : s.kind \in {"INSERT", "UPDATE", "DELETE"})

\* C35: flush() is idempotent: when flush() is called twice in a row with no
\* add, delete or column assignment in between, the second call executes no
\* INSERT, UPDATE or DELETE statement
C35_FlushIdempotent ==
    [][(last_op.name = "flush" /\ last_op'.name = "flush" /\ nops' = nops + 1)
          => Writes(log') = <<>>]_vars

\* the positions of the INSERT statements for object o among those executed
InsertsOf(l, o) == {i \in DOMAIN l : l[i].kind = "INSERT" /\ l[i].obj = o}

\* C36: across any sequence of add, flush and commit on one session each
\* entity instance is INSERTed at most once: a handler executes an INSERT only
\* for an instance whose exists_in_db was false, executes it once and leaves
\* exists_in_db true, and exists_in_db never goes back to false, so no later
\* flush inserts the instance again, even if it is still in created_objects
\* or is added again
C36_InsertedAtMostOnce ==
    [][nops' = nops + 1 =>
          /\ \A o \in DOMAIN objs : objs[o].exists_in_db => objs'[o].exists_in_db
          /\ \A o \in DOMAIN objs' :
                InsertsOf(log', o) # {} =>
                   /\ o \in DOMAIN objs
                   /\ ~objs[o].exists_in_db
                   /\ objs'[o].exists_in_db
                   /\ Cardinality(InsertsOf(log', o)) = 1]_vars

\* a flush met an instance that an earlier flush had inserted and that is
\* still in created_objects, and updated it
C36_Witness ==
    /\ last_op.name = "flush"
    /\ \E i \in DOMAIN log :
          /\ log[i].kind = "UPDATE"
          /\ objs[log[i].obj].apply_defaults
          /\ objs[log[i].obj].exists_in_db
          /\ ListHas(created_objects, log[i].obj)
          /\ InsertsOf(log, log[i].obj) = {}

\* C37: pending collections stay disjoint: no identity is in both
\* known_objects and deleted_objects and no object is in both created_objects
\* and deleted_objects, so one flush never both writes and deletes the same
\* object
C37_PendingDisjoint ==
    /\ \A i \in DOMAIN known_objects : ~DictHas(deleted_objects, known_objects[i].key)
    /\ \A i \in DOMAIN created_objects :
          \A j \in DOMAIN deleted_objects : deleted_objects[j].obj # created_objects[i]

\* object o is in known_objects or in created_objects
Tracked(o) == (\E i \in DOMAIN known_objects : known_objects[i].obj = o)
                 \/ ListHas(created_objects, o)

\* C38: in cooperative mode, under any interleaving of tasks that use the
\* same session, an object for which add() has returned stays in
\* known_objects or created_objects until it is deleted; a connection or
\* cursor establishment completing in another task never empties the
\* session's collections
C38_AddedStaysTracked == \A o \in result.added : Tracked(o)

====
